---- MODULE Spec2Model ----
(***************************************************************************)
(* skills-cli: the reconciliation engine (src/reconcile.ts) and the lock   *)
(* manifest it mutates, the repo-tracking helpers of the lock store, and   *)
(* the checkout manager (git.ts).                                          *)
(*                                                                         *)
(* `lock` is the lock object a command holds and `disk` the manifest file; *)
(* the callers of one command are sequential (the program is               *)
(* single-threaded and every helper is read-modify-write). `write` is a    *)
(* write of the manifest in progress: the position of the writer and the   *)
(* temporary file next to the manifest.                                    *)
(* `checkout[r]` is what discoverSkills finds in the checkout of repo r,   *)
(* `head[p]` the HEAD revision of the checkout at path p, `trees[d]` what  *)
(* is on disk at directory d, `links` the skill links on disk.             *)
(* `last` records the most recent reconcile or lock-store operation (its   *)
(* arguments, what it returned, the filesystem calls it made) and `call`   *)
(* the most recent call of the checkout manager (the git commands it ran,  *)
(* what it returned or raised).                                            *)
(***************************************************************************)
EXTENDS Integers, Sequences, FiniteSets, TLC

VARIABLES lock, checkout, head, last, links, disk, write, trees, call

vars == <<lock, checkout, head, last, links, disk, write, trees, call>>

\* The state of the checkout manager.
gitVars == <<trees, call>>

----------------------------------------------------------------------------
(* Bounds and small universes *)

\* The largest timestamp a call can observe (new Date() is an input).
MaxNow == 1

Times == 0 .. MaxNow

\* Skill names that occur in checkouts and in the manifest.
Names == {"a", "b"}

\* Normalized repo identities (keys of lock.repos).
Repos == {"r1", "r2"}

\* Revision hashes a checkout's HEAD can have.
Hashes == {"h1", "h2"}

\* The value of an optional field that is not set (undefined).
None == "none"

\* options.agents of a reconcile call.
AgentList == <<"claude-code", "cursor">>

Range(s) == {s[i] : i \in 1 .. Len(s)}

\* The skill names the checkouts of a repo can contain. Both repos can hold a
\* skill named "a".
RepoNames(r) == IF r = "r1" THEN {"a", "b"} ELSE {"a"}

\* Lists of names of S without a duplicate, of every length and order.
ListsOver(S) ==
  {s \in UNION {[1 .. n -> S] : n \in 0 .. Cardinality(S)} :
     \A i, j \in 1 .. Len(s) : i # j => s[i] # s[j]}

----------------------------------------------------------------------------
(* Data model *)

Url(r) == "https://" \o r

\* options of a reconcile call for repo r (sourceUrl, sourceType, ref, agents).
Options(r) ==
  [sourceUrl |-> Url(r), sourceType |-> "github", ref |-> None, agents |-> AgentList]

\* A legacy standalone install: an entry without installMethod and repoPath.
LegacyEntry ==
  [source |-> "other/repo", sourceType |-> "github",
   sourceUrl |-> "https://github.com/other/repo.git",
   skillFolderHash |-> "def456", installedAt |-> 0, updatedAt |-> 0,
   ref |-> None, installMethod |-> None, repoPath |-> None]

\* The entry reconcileRepoSkills writes for an added skill.
NewEntry(repoPath, options, now) ==
  [source |-> repoPath, sourceType |-> options.sourceType,
   sourceUrl |-> options.sourceUrl, skillFolderHash |-> "",
   installedAt |-> now, updatedAt |-> now, ref |-> options.ref,
   installMethod |-> "repo-symlink", repoPath |-> repoPath]

\* delete obj[key]
Delete(f, k) == [x \in DOMAIN f \ {k} |-> f[x]]

\* obj[key] = value
Put(f, k, v) == [x \in DOMAIN f \cup {k} |-> IF x = k THEN v ELSE f[x]]

\* array.filter((s) => s !== name)
Without(s, name) == SelectSeq(s, LAMBDA x : x # name)

----------------------------------------------------------------------------
(* reconcileRepoSkills (src/reconcile.ts) *)

\* 1. const trackedSkills = lock.repos?.[repoPath]?.skills ?? []
TrackedSkills(lk, repoPath) ==
  IF repoPath \in DOMAIN lk.repos THEN lk.repos[repoPath].skills ELSE <<>>

\* Variant of RemovedOf: the filtered names come out last-to-first (collected
\* with unshift instead of filter).
RemovedOfReversed(trackedSkills, discovered) ==
  LET kept == SelectSeq(trackedSkills, LAMBDA name : name \notin Range(discovered))
  IN [i \in 1 .. Len(kept) |-> kept[Len(kept) + 1 - i]]

\* 3. removed = trackedSkills.filter((name) => !discoveredNames.has(name))
RemovedOf(trackedSkills, discovered) ==
  SelectSeq(trackedSkills, LAMBDA name : name \notin Range(discovered))

\* Variant of AddedOf: compares the lists instead of the sets of names, so a
\* checkout whose names come in another order counts as all new.
AddedOfListCompare(trackedSkills, discovered) ==
  IF trackedSkills = discovered THEN <<>>
  ELSE SelectSeq(discovered,
                 LAMBDA name : name \notin Range(trackedSkills)
                               \/ Range(trackedSkills) = Range(discovered))

\* 3. added = discoveredSkills.filter((s) => !trackedSet.has(s.name)).map(name)
AddedOf(trackedSkills, discovered) ==
  SelectSeq(discovered, LAMBDA name : name \notin Range(trackedSkills))

\* The rm calls of step 4 for one removed name: the canonical path, then the
\* global skills directory of every agent of options.agents.
RmTargets(skillName, agentList) ==
  <<(<<"canonical", skillName>>)>> \o
  [j \in 1 .. Len(agentList) |-> <<agentList[j], skillName>>]

\* Variant of RemoveStep: deletes the lock.skills entry and leaves the name
\* in lock.repos[repoPath].skills.
RemoveStepKeepsTracked(lk, repoPath, skillName) ==
  [lk EXCEPT !.skills = Delete(@, skillName)]

\* One iteration of the removed loop on the lock: delete lock.skills[name],
\* filter the name out of lock.repos[repoPath].skills when the entry exists.
RemoveStep(lk, repoPath, skillName) ==
  [lk EXCEPT
     !.skills = Delete(@, skillName),
     !.repos = IF repoPath \in DOMAIN @
               THEN [@ EXCEPT ![repoPath].skills = Without(@, skillName)]
               ELSE @]

\* Variant of RemoveLoop: an rm that rejects ends the loop, before the lock
\* writes of its name.
RECURSIVE RemoveLoopRethrows(_, _, _, _, _, _)
RemoveLoopRethrows(st, repoPath, removed, agentList, rmFailed, i) ==
  IF i > Len(removed) THEN st
  ELSE IF Range(RmTargets(removed[i], agentList)) \cap rmFailed # {}
       THEN [st EXCEPT
               !.rms = @ \o RmTargets(removed[i], agentList),
               !.caught = @ \cup (Range(RmTargets(removed[i], agentList))
                                    \cap rmFailed)]
       ELSE RemoveLoopRethrows(
              [lock |-> RemoveStep(st.lock, repoPath, removed[i]),
               rms |-> st.rms \o RmTargets(removed[i], agentList),
               caught |-> st.caught],
              repoPath, removed, agentList, rmFailed, i + 1)

\* 4. for (const skillName of removed) { rm ...; delete ...; filter ... }
\* Every rm is awaited in a try block of its own with an empty catch: an rm
\* of rmFailed rejects, its error is caught (st.caught) and the iteration
\* goes on, so the loop always completes.
RECURSIVE RemoveLoop(_, _, _, _, _, _)
RemoveLoop(st, repoPath, removed, agentList, rmFailed, i) ==
  IF i > Len(removed) THEN st
  ELSE RemoveLoop([lock |-> RemoveStep(st.lock, repoPath, removed[i]),
                   rms |-> st.rms \o RmTargets(removed[i], agentList),
                   caught |-> st.caught
                              \cup (Range(RmTargets(removed[i], agentList))
                                    \cap rmFailed)],
                  repoPath, removed, agentList, rmFailed, i + 1)

\* Variant of AddStep: the write also refreshes updatedAt of every entry of
\* the repo.
AddStepTouchesTracked(lk, repoPath, skillName, options, now) ==
  [lk EXCEPT
     !.skills = Put([n \in DOMAIN @ |->
                       IF @[n].repoPath = repoPath
                       THEN [@[n] EXCEPT !.updatedAt = now]
                       ELSE @[n]],
                    skillName, NewEntry(repoPath, options, now)),
     !.repos = IF repoPath \in DOMAIN @
               THEN IF skillName \in Range(@[repoPath].skills)
                    THEN @
                    ELSE [@ EXCEPT ![repoPath].skills = Append(@, skillName)]
               ELSE @]

\* The lock writes of one iteration of the added loop, after the installs:
\* lock.skills[name] = {...}; push the name when the repo entry exists and
\* does not include it.
AddStep(lk, repoPath, skillName, options, now) ==
  [lk EXCEPT
     !.skills = Put(@, skillName, NewEntry(repoPath, options, now)),
     !.repos = IF repoPath \in DOMAIN @
               THEN IF skillName \in Range(@[repoPath].skills)
                    THEN @
                    ELSE [@ EXCEPT ![repoPath].skills = Append(@, skillName)]
               ELSE @]

\* 5. for (const skillName of added) { install for each agent; write lock }
\* failAt = <<k, j>>: installSkillFromRepoForAgent throws for added[k] and
\* agent j, which aborts the call there; <<0, 0>>: no install throws.
RECURSIVE AddLoop(_, _, _, _, _, _, _)
AddLoop(st, repoPath, added, options, now, failAt, i) ==
  IF i > Len(added) THEN st
  ELSE IF failAt[1] = i
       THEN [st EXCEPT
               !.threw = TRUE,
               !.installs = @ \o [j \in 1 .. failAt[2] - 1 |->
                                    <<added[i], options.agents[j]>>]]
       ELSE AddLoop([st EXCEPT
                       !.lock = AddStep(@, repoPath, added[i], options, now),
                       !.installs = @ \o [j \in 1 .. Len(options.agents) |->
                                            <<added[i], options.agents[j]>>]],
                    repoPath, added, options, now, failAt, i + 1)

\* The points at which an install can throw, for a given added list.
FailPoints(added, agentList) ==
  {<<0, 0>>} \cup ((1 .. Len(added)) \X (1 .. Len(agentList)))

\* Variant of reconcileRepoSkills: trusts a stored headHash and does nothing
\* for a repo entry that has one.
reconcileTrustsStoredHash(repoPath, discovered, lk, options, now, failAt, rmFailed) ==
  LET hashed == repoPath \in DOMAIN lk.repos /\ lk.repos[repoPath].headHash # None
      trackedSkills == TrackedSkills(lk, repoPath)
      removed == IF hashed THEN <<>> ELSE RemovedOf(trackedSkills, discovered)
      added == IF hashed THEN <<>> ELSE AddedOf(trackedSkills, discovered)
      afterRemoved == RemoveLoop([lock |-> lk, rms |-> <<>>, caught |-> {}],
                                 repoPath, removed, options.agents,
                                 rmFailed, 1)
      afterAdded == AddLoop([lock |-> afterRemoved.lock, threw |-> FALSE,
                             installs |-> <<>>],
                            repoPath, added, options, now, failAt, 1)
  IN [lock |-> afterAdded.lock,
      threw |-> afterAdded.threw,
      added |-> IF afterAdded.threw THEN <<>> ELSE added,
      removed |-> IF afterAdded.threw THEN <<>> ELSE removed,
      installs |-> afterAdded.installs,
      rms |-> afterRemoved.rms,
      caught |-> afterRemoved.caught]

\* The whole call. discovered is the list of names discoverSkills returns
\* for the checkout; the stored headHash of the repo entry is never read.
\* rmFailed is the set of rm targets whose rm rejects.
reconcileRepoSkills(repoPath, discovered, lk, options, now, failAt, rmFailed) ==
  LET trackedSkills == TrackedSkills(lk, repoPath)
      removed == RemovedOf(trackedSkills, discovered)
      added == AddedOf(trackedSkills, discovered)
      afterRemoved == RemoveLoop([lock |-> lk, rms |-> <<>>, caught |-> {}],
                                 repoPath, removed, options.agents,
                                 rmFailed, 1)
      afterAdded == AddLoop([lock |-> afterRemoved.lock, threw |-> FALSE,
                             installs |-> <<>>],
                            repoPath, added, options, now, failAt, 1)
  IN [lock |-> afterAdded.lock,
      threw |-> afterAdded.threw,
      added |-> IF afterAdded.threw THEN <<>> ELSE added,
      removed |-> IF afterAdded.threw THEN <<>> ELSE removed,
      installs |-> afterAdded.installs,
      rms |-> afterRemoved.rms,
      caught |-> afterRemoved.caught]

\* Where a skill is linked on disk: its canonical path and its directory
\* under the global skills directory of every agent.
LinkPlaces == {"canonical"} \cup Range(AgentList)

\* What a successful installSkillFromRepoForAgent(skill, agent) leaves on
\* disk: the canonical symlink to the skill's directory in the checkout and
\* the agent's symlink to the canonical path.
InstalledBy(skillName, agentType) ==
  {<<"canonical", skillName>>, <<agentType, skillName>>}

\* The install calls a reconcile can make for the added names: the installer
\* can fail in any of them without throwing, by returning success = false.
InstallCalls(added, agentList) ==
  {<<added[k], agentList[j]>> : k \in 1 .. Len(added), j \in 1 .. Len(agentList)}

\* The filesystem after the rm calls of step 4 and the install calls of
\* step 5. A call of `unsuccessful` returned success = false and linked
\* nothing; the call that threw (if any) is not in installs.
LinksAfter(lnk, rms, installs, unsuccessful) ==
  (lnk \ Range(rms))
  \cup UNION {InstalledBy(c[1], c[2]) : c \in Range(installs) \ unsuccessful}

----------------------------------------------------------------------------
(* Repo-tracking helpers of the lock store (skill-lock.ts) *)

\* [...new Set(list)]: the first occurrence of every name, in order.
RECURSIVE Dedup(_)
Dedup(s) ==
  IF s = <<>> THEN <<>>
  ELSE LET front == Dedup(SubSeq(s, 1, Len(s) - 1))
           x == s[Len(s)]
       IN IF x \in Range(front) THEN front ELSE Append(front, x)

\* Variant of addRepoToLock: the given names replace the list of an
\* existing entry.
addRepoToLockReplaces(lk, identity, info, skillNames, now) ==
  IF identity \in DOMAIN lk.repos
  THEN [lk EXCEPT !.repos =
          [@ EXCEPT ![identity] =
             [@ EXCEPT !.skills = skillNames, !.lastFetched = now]]]
  ELSE [lk EXCEPT !.repos =
          Put(@, identity, [url |-> info.url, ref |-> info.ref,
                            skills |-> skillNames, lastFetched |-> now,
                            headHash |-> None]),
                  !.repoKeys = Append(@, identity)]

\* Creates the repo entry, or merges skillNames into the existing entry as a
\* deduplicated, order-stable union; lastFetched becomes now either way. A
\* new key comes last in the iteration order of lock.repos (repoKeys), an
\* existing key keeps its place.
addRepoToLock(lk, identity, info, skillNames, now) ==
  IF identity \in DOMAIN lk.repos
  THEN [lk EXCEPT !.repos =
          [@ EXCEPT ![identity] =
             [@ EXCEPT !.skills = Dedup(@ \o skillNames), !.lastFetched = now]]]
  ELSE [lk EXCEPT !.repos =
          Put(@, identity, [url |-> info.url, ref |-> info.ref,
                            skills |-> skillNames, lastFetched |-> now,
                            headHash |-> None]),
                  !.repoKeys = Append(@, identity)]

\* Removes the name from the repo entry's skills; no-op when the repo or the
\* name is absent.
removeSkillFromRepo(lk, identity, skillName) ==
  IF identity \in DOMAIN lk.repos
  THEN [lk EXCEPT !.repos =
          [@ EXCEPT ![identity] = [@ EXCEPT !.skills = Without(@, skillName)]]]
  ELSE lk

\* Variant of removeRepoFromLock: the skill entries that refer to the repo
\* go with it.
removeRepoFromLockWithSkills(lk, identity) ==
  [lk EXCEPT !.repos = Delete(@, identity), !.repoKeys = Without(@, identity),
             !.skills = [n \in {m \in DOMAIN @ : @[m].repoPath # identity} |-> @[n]]]

\* Deletes the repo entry; lock.skills is not touched.
removeRepoFromLock(lk, identity) ==
  [lk EXCEPT !.repos = Delete(@, identity), !.repoKeys = Without(@, identity)]

\* Variant of getOrphanedRepos: a repo is orphaned when no entry of
\* lock.skills refers to it.
getOrphanedReposByBackReference(lk) ==
  LET keys == SelectSeq(lk.repoKeys,
                        LAMBDA k : \A n \in DOMAIN lk.skills :
                                     lk.skills[n].repoPath # k)
  IN [i \in 1 .. Len(keys) |-> [key |-> keys[i], entry |-> lk.repos[keys[i]]]]

\* The repo entries without skills, each with its key, in the iteration
\* order of lock.repos.
getOrphanedRepos(lk) ==
  LET keys == SelectSeq(lk.repoKeys, LAMBDA k : lk.repos[k].skills = <<>>)
  IN [i \in 1 .. Len(keys) |-> [key |-> keys[i], entry |-> lk.repos[keys[i]]]]

\* createEmptyLockFile: current version, empty skills and repos maps.
\* repoKeys is the iteration order of the keys of repos (the order in which
\* the keys were added to the JSON object).
CURRENT_VERSION == 4

createEmptyLockFile ==
  [version |-> CURRENT_VERSION, skills |-> <<>>, repos |-> <<>>,
   repoKeys |-> <<>>]

\* The repos of S as keys of a manifest that tracked them in the order
\* r1, r2.
RepoList == <<"r1", "r2">>

KeysIn(S) == SelectSeq(RepoList, LAMBDA r : r \in S)

----------------------------------------------------------------------------
(* The manifest file: reading, migrating and writing (skill-lock.ts) *)

\* What can be at the manifest path besides a manifest document: nothing,
\* text that is not JSON, JSON that is not a manifest object, and the first
\* part of the serialization of a document (a write that was cut short).
MissingFile == [missing |-> TRUE]

UnparsableFile == [text |-> "invalid json"]

NotAManifest == [json |-> "[]"]

Truncated(doc) == [truncated |-> doc]

\* The file parses to an object with a version and a skills map.
IsManifest(file) == {"version", "skills"} \subseteq DOMAIN file

\* Variant of MigrateStep: the next version is built from the skills alone.
MigrateStepFromSkills(doc) ==
  IF doc.version + 1 = CURRENT_VERSION
  THEN [version |-> CURRENT_VERSION, skills |-> doc.skills,
        repos |-> <<>>, repoKeys |-> <<>>]
  ELSE [version |-> doc.version + 1, skills |-> doc.skills]

\* One migration: the version goes up by one; the step to version 4
\* introduces the repos map when the document has none. Every other field
\* is kept.
MigrateStep(doc) ==
  IF doc.version + 1 = CURRENT_VERSION
  THEN [doc EXCEPT !.version = CURRENT_VERSION] @@ [repos |-> <<>>, repoKeys |-> <<>>]
  ELSE [doc EXCEPT !.version = @ + 1]

\* Migrations applied one after the other until the current version.
RECURSIVE Migrate(_)
Migrate(doc) ==
  IF doc.version >= CURRENT_VERSION THEN doc ELSE Migrate(MigrateStep(doc))

\* Variant of readSkillLock: a manifest of an older version is discarded
\* and an unparsable file is an error.
readSkillLockStrict(file) ==
  IF IsManifest(file) /\ file.version >= CURRENT_VERSION
  THEN [threw |-> FALSE, lock |-> file, file |-> file]
  ELSE IF IsManifest(file) \/ file = MissingFile
  THEN [threw |-> FALSE, lock |-> createEmptyLockFile, file |-> createEmptyLockFile]
  ELSE [threw |-> TRUE, lock |-> createEmptyLockFile, file |-> file]

\* readSkillLock: the manifest at the path migrated to the current version,
\* or a fresh empty manifest when the file is missing or is not a manifest;
\* what is returned is also what the file holds afterwards.
readSkillLock(file) ==
  IF IsManifest(file)
  THEN [threw |-> FALSE, lock |-> Migrate(file), file |-> Migrate(file)]
  ELSE [threw |-> FALSE, lock |-> createEmptyLockFile, file |-> createEmptyLockFile]

\* The manifest file and the temporary file next to it.
Files(manifest, temp) == [manifest |-> manifest, temp |-> temp]

\* Variant of StartWriting: the serialization goes to the manifest path
\* itself.
StartWritingInPlace(files, doc) == [files EXCEPT !.manifest = Truncated(doc)]

\* writeSkillLock, first step: the serialization of doc starts to go to the
\* temporary file; until it is complete the file holds a first part of it.
StartWriting(files, doc) == [files EXCEPT !.temp = Truncated(doc)]

\* writeSkillLock, second step: the temporary file is complete.
FinishWriting(files, doc) == [files EXCEPT !.temp = doc]

\* writeSkillLock, last step: the temporary file replaces the manifest in
\* one step.
Replace(files) == Files(files.temp, MissingFile)

\* No write in progress. old and new are the manifest the latest write
\* found and the one it was given.
NoWrite ==
  [pc |-> "idle", temp |-> MissingFile, old |-> MissingFile, new |-> MissingFile]

----------------------------------------------------------------------------
(* Checkout manager (git.ts) *)

\* The refs a checkout can be pinned to; None is the default branch.
Refs == {None, "v1"}

\* Strings the code takes apart (URLs, refs, paths) are sequences of
\* one-character strings.
StartsWith(s, p) == Len(s) >= Len(p) /\ SubSeq(s, 1, Len(p)) = p

EndsWith(s, p) == Len(s) >= Len(p) /\ SubSeq(s, Len(s) - Len(p) + 1, Len(s)) = p

\* s without its first n characters.
Drop(s, n) == SubSeq(s, n + 1, Len(s))

\* Position of the first c in s, 0 when there is none.
FirstIndex(s, c) ==
  IF \E i \in 1..Len(s) : s[i] = c
  THEN CHOOSE i \in 1..Len(s) : s[i] = c /\ \A j \in 1..(i - 1) : s[j] # c
  ELSE 0

\* A sequence of one-character strings as one string.
RECURSIVE Text(_)
Text(s) == IF s = <<>> THEN "" ELSE Head(s) \o Text(Tail(s))

GitAt == <<"g", "i", "t", "@">>

DotGit == <<".", "g", "i", "t">>

\* The prefixes of /^(?:https?|ssh|git):\/\//.
Protocols ==
  { <<"h", "t", "t", "p", "s", ":", "/", "/">>,
    <<"h", "t", "t", "p", ":", "/", "/">>,
    <<"s", "s", "h", ":", "/", "/">>,
    <<"g", "i", "t", ":", "/", "/">> }

\* url.match(/^git@([^:]+):(.+)$/) rewritten as `${1}/${2}`: the literal
\* user git, a host of at least one character up to the first colon, and
\* at least one character after that colon.
SshForm(url) ==
  LET rest == Drop(url, Len(GitAt))
      k == FirstIndex(rest, ":")
  IN IF StartsWith(url, GitAt) /\ k >= 2 /\ Len(rest) > k
     THEN SubSeq(rest, 1, k - 1) \o <<"/">> \o Drop(rest, k)
     ELSE url

\* replace(/^(?:https?|ssh|git):\/\//, '')
StripProtocol(s) ==
  IF \E p \in Protocols : StartsWith(s, p)
  THEN Drop(s, Len(CHOOSE p \in Protocols : StartsWith(s, p)))
  ELSE s

\* replace(/^[^@]+@/, ''): everything up to the first '@', when at least one
\* character comes before it.
StripUserInfo(s) ==
  LET k == FirstIndex(s, "@") IN IF k >= 2 THEN Drop(s, k) ELSE s

\* replace(/\.git$/, '')
StripDotGit(s) ==
  IF EndsWith(s, DotGit) THEN SubSeq(s, 1, Len(s) - Len(DotGit)) ELSE s

\* replace(/\/+$/, '')
RECURSIVE StripSlashes(_)
StripSlashes(s) ==
  IF s # <<>> /\ s[Len(s)] = "/" THEN StripSlashes(SubSeq(s, 1, Len(s) - 1)) ELSE s

\* normalizeGitUrl: the five rewrites in the order the code applies them.
normalizeGitUrl(url) ==
  StripSlashes(StripDotGit(StripUserInfo(StripProtocol(SshForm(url)))))

\* The path segments of p: the pieces between its slashes.
RECURSIVE Split(_)
Split(p) ==
  LET k == FirstIndex(p, "/")
  IN IF k = 0 THEN <<p>> ELSE <<SubSeq(p, 1, k - 1)>> \o Split(Drop(p, k))

DotDot == <<".", ".">>

\* One segment resolved against the segments kept so far: empty and "."
\* segments vanish, ".." takes the previous segment away.
Resolve(kept, segment, isAbsolute) ==
  IF segment = <<>> \/ segment = <<".">> THEN kept
  ELSE IF segment # DotDot THEN Append(kept, segment)
  ELSE IF kept # <<>> /\ kept[Len(kept)] # DotDot THEN SubSeq(kept, 1, Len(kept) - 1)
  ELSE IF isAbsolute THEN kept
  ELSE Append(kept, segment)

RECURSIVE ResolveAll(_, _, _, _)
ResolveAll(segments, i, kept, isAbsolute) ==
  IF i > Len(segments) THEN kept
  ELSE ResolveAll(segments, i + 1, Resolve(kept, segments[i], isAbsolute), isAbsolute)

\* Segments put together with one slash between two of them.
RECURSIVE Joined(_)
Joined(segments) ==
  IF segments = <<>> THEN <<>>
  ELSE IF Len(segments) = 1 THEN segments[1]
  ELSE segments[1] \o <<"/">> \o Joined(Tail(segments))

\* path.normalize (POSIX).
normalize(p) ==
  IF p = <<>> THEN <<".">>
  ELSE LET isAbsolute == p[1] = "/"
           trailingSeparator == p[Len(p)] = "/"
           body == Joined(ResolveAll(Split(p), 1, <<>>, isAbsolute))
       IN IF body = <<>>
          THEN (IF isAbsolute THEN <<"/">>
                ELSE IF trailingSeparator THEN <<".", "/">> ELSE <<".">>)
          ELSE (IF isAbsolute THEN <<"/">> ELSE <<>>)
               \o body \o (IF trailingSeparator THEN <<"/">> ELSE <<>>)

\* path.join: the non-empty arguments joined with a slash, then normalized.
join(parts) ==
  normalize(Joined(SelectSeq(parts, LAMBDA part : part # <<>>)))

AGENTS_DIR == <<".", "a", "g", "e", "n", "t", "s">>

REPOS_SUBDIR == <<"r", "e", "p", "o", "s">>

\* An optional string that is not there (undefined): no sequence of
\* characters equals it.
Undefined == <<"undefined">>

\* getReposDir: the environment's SKILLS_REPOS_DIR when it holds a non-empty
\* string, else <home>/.agents/repos. env is what the process sees:
\* [SKILLS_REPOS_DIR, homedir].
getReposDir(env) ==
  IF env.SKILLS_REPOS_DIR # Undefined /\ env.SKILLS_REPOS_DIR # <<>>
  THEN env.SKILLS_REPOS_DIR
  ELSE join(<<env.homedir, AGENTS_DIR, REPOS_SUBDIR>>)

\* getRepoCheckoutPath with the ref left out of the path.
getRepoCheckoutPathWithoutRef(url, ref, env) ==
  join(<<getReposDir(env), normalizeGitUrl(url)>>)

\* getRepoCheckoutPath: a ref that is undefined or empty adds nothing.
getRepoCheckoutPath(url, ref, env) ==
  LET normalized == normalizeGitUrl(url)
  IN join(<<getReposDir(env),
            IF ref # Undefined /\ ref # <<>>
            THEN normalized \o <<"@">> \o ref
            ELSE normalized>>)

\* The name of a checkout directory below the repos root, for a normalized
\* identity taken as one name: <identity> without a ref, <identity>@<ref>
\* with one.
CheckoutDir(normalized, ref) ==
  IF ref = None THEN normalized ELSE normalized \o "@" \o ref

\* A repository whose identity continues the identity r1 with one more
\* segment (as h/g/r continues h/g): its checkout path lies under r1's.
NestedRepo == "r1/r"

\* The checkout paths of the model: every repo on its default branch, repo
\* r1 pinned to v1, and the nested repo.
Paths ==
  {CheckoutDir(r, None) : r \in Repos \cup {NestedRepo}}
  \cup {CheckoutDir("r1", "v1")}

\* The checkout paths that lie under the path p.
Contains(p) ==
  IF p = CheckoutDir("r1", None) THEN {CheckoutDir(NestedRepo, None)} ELSE {}

\* The directory mkdtemp made for the latest cloneRepo call.
TempDir == "tmp"

\* The directories of the model. trees[d] is "absent" (nothing at the path),
\* "dir" (a directory without .git) or "repo" (a directory with .git).
Dirs == Paths \cup {TempDir}

\* The value getRepoHeadHash returns for a missing revision (null).
Null == "null"

\* The substrings of a failure's text the classification looks for.
TimeoutMarkers == {"block timeout", "timed out"}

AuthMarkers ==
  {"Authentication failed", "could not read Username", "Permission denied",
   "Repository not found"}

\* The text of a failure, as the set of markers it contains: no marker, each
\* marker alone, and a text with a timeout and an authentication marker.
Messages ==
  {{}} \cup {{m} : m \in TimeoutMarkers \cup AuthMarkers}
       \cup {{"timed out", "Permission denied"}}

\* What a git command or a filesystem call can do: succeed, or fail with a
\* message.
Succeeded == [ok |-> TRUE, message |-> {}]

Failed(message) == [ok |-> FALSE, message |-> message]

Failures == {Failed(m) : m \in Messages}

GitResults == {Succeeded} \cup Failures

\* errorMessage.includes('block timeout') || errorMessage.includes('timed out')
isTimeout(message) == message \cap TimeoutMarkers # {}

\* Variant of isAuthError: 'Repository not found' is not looked for.
isAuthErrorWithoutNotFound(message) ==
  message \cap (AuthMarkers \ {"Repository not found"}) # {}

\* errorMessage.includes(...) for each of the four authentication markers
isAuthError(message) == message \cap AuthMarkers # {}

\* new GitCloneError(text, url, isTimeout, isAuthError)
GitCloneError(timeout, auth) ==
  [name |-> "GitCloneError", isTimeout |-> timeout, isAuthError |-> auth]

\* An error that is not a GitCloneError (thrown by simple-git itself).
PlainError == [name |-> "Error", isTimeout |-> FALSE, isAuthError |-> FALSE]

NoError == [name |-> "none", isTimeout |-> FALSE, isAuthError |-> FALSE]

\* Variant of CloneFailure: there is no authentication kind, a failure
\* without timeout marker is generic.
CloneFailureWithoutAuthKind(message) ==
  IF isTimeout(message) THEN GitCloneError(TRUE, FALSE)
  ELSE GitCloneError(FALSE, FALSE)

\* The catch block of a failed clone (cloneRepo and ensureRepoCheckout): a
\* timeout marker wins, then an authentication marker, else generic.
CloneFailure(message) ==
  IF isTimeout(message) THEN GitCloneError(TRUE, FALSE)
  ELSE IF isAuthError(message) THEN GitCloneError(FALSE, TRUE)
  ELSE GitCloneError(FALSE, FALSE)

\* One entry of the log of commands a call has run.
Ran(op, result) == [op |-> op, result |-> result]

\* simpleGit(baseDir) throws when baseDir does not exist.
SimpleGitThrows(tree) == tree = "absent"

\* The directory after rm(path, {recursive, force}).catch(() => {}): gone
\* when rm succeeds, otherwise still there without a usable .git.
AfterRm(rmResult) == IF rmResult.ok THEN "absent" ELSE "dir"

\* Variant of UpdateExisting: the pull of the ref has no catch of its own,
\* its failure reaches the outer catch block.
UpdateExistingRefPullCaught(ref, env) ==
  IF ~env.fetch.ok
  THEN [log |-> <<Ran("fetch", env.fetch)>>, caught |-> env.fetch, pulled |-> FALSE]
  ELSE IF ref # None
       THEN IF ~env.checkout.ok
            THEN [log |-> <<Ran("fetch", env.fetch), Ran("checkout", env.checkout)>>,
                  caught |-> env.checkout, pulled |-> FALSE]
            ELSE [log |-> <<Ran("fetch", env.fetch), Ran("checkout", env.checkout),
                            Ran("pullRef", env.pull)>>,
                  caught |-> env.pull, pulled |-> env.pull.ok]
       ELSE [log |-> <<Ran("fetch", env.fetch), Ran("pull", env.pull)>>,
             caught |-> env.pull, pulled |-> env.pull.ok]

\* The update of an existing checkout: fetch, then checkout(ref) and a pull
\* of the ref whose failure is dropped, or a plain pull. `caught` is the
\* failure that reaches the outer catch block (Succeeded when none does).
UpdateExisting(ref, env) ==
  IF ~env.fetch.ok
  THEN [log |-> <<Ran("fetch", env.fetch)>>, caught |-> env.fetch, pulled |-> FALSE]
  ELSE IF ref # None
       THEN IF ~env.checkout.ok
            THEN [log |-> <<Ran("fetch", env.fetch), Ran("checkout", env.checkout)>>,
                  caught |-> env.checkout, pulled |-> FALSE]
            ELSE [log |-> <<Ran("fetch", env.fetch), Ran("checkout", env.checkout),
                            Ran("pullRef", env.pull)>>,
                  caught |-> Succeeded, pulled |-> env.pull.ok]
       ELSE [log |-> <<Ran("fetch", env.fetch), Ran("pull", env.pull)>>,
             caught |-> env.pull, pulled |-> env.pull.ok]

\* ensureRepoCheckout for the checkout path, on a directory in state `tree`
\* with HEAD hd. env gives the result of every command the call may run and
\* the HEAD a successful pull or clone leaves.
ensureRepoCheckout(checkoutPath, ref, tree, hd, env) ==
  IF tree = "repo"
  THEN LET upd == UpdateExisting(ref, env)
           rethrown == ~upd.caught.ok /\ isAuthError(upd.caught.message)
       IN [threw |-> rethrown,
           error |-> IF rethrown THEN GitCloneError(FALSE, TRUE) ELSE NoError,
           value |-> IF rethrown THEN None ELSE checkoutPath,
           tree |-> tree,
           head |-> IF upd.pulled THEN env.head ELSE hd,
           log |-> upd.log]
  ELSE IF env.clone.ok
       THEN [threw |-> FALSE, error |-> NoError, value |-> checkoutPath,
             tree |-> "repo", head |-> env.head,
             log |-> <<Ran("mkdir", Succeeded), Ran("clone", env.clone)>>]
       ELSE [threw |-> TRUE, error |-> CloneFailure(env.clone.message),
             value |-> None, tree |-> AfterRm(env.rm), head |-> hd,
             log |-> <<Ran("mkdir", Succeeded), Ran("clone", env.clone),
                       Ran("rm", env.rm)>>]

\* cloneRepo: mkdtemp, clone into the new directory; a failed clone removes
\* the directory and throws the classified error.
cloneRepo(env) ==
  IF env.clone.ok
  THEN [threw |-> FALSE, error |-> NoError, value |-> TempDir, tree |-> "repo",
        log |-> <<Ran("mkdtemp", Succeeded), Ran("clone", env.clone)>>]
  ELSE [threw |-> TRUE, error |-> CloneFailure(env.clone.message),
        value |-> None, tree |-> AfterRm(env.rm),
        log |-> <<Ran("mkdtemp", Succeeded), Ran("clone", env.clone),
                  Ran("rm", env.rm)>>]

\* What a git command gives in a directory in state `tree`: the result the
\* remote and the network allow in a git working tree, a failure without
\* marker ("not a git repository") elsewhere.
InTree(tree, result) == IF tree = "repo" THEN result ELSE Failed({})

\* pullRepo: simpleGit(repoDir) is built before the try block; fetch and pull
\* run inside it and every failure of theirs is dropped.
pullRepo(repoDir, tree, hd, env) ==
  IF SimpleGitThrows(tree)
  THEN [threw |-> TRUE, error |-> PlainError, value |-> None, tree |-> tree,
        head |-> hd, log |-> <<>>]
  ELSE LET fetch == InTree(tree, env.fetch)
           pull == InTree(tree, env.pull)
       IN [threw |-> FALSE, error |-> NoError, value |-> None, tree |-> tree,
           head |-> IF fetch.ok /\ pull.ok THEN env.head ELSE hd,
           log |-> IF fetch.ok
                   THEN <<Ran("fetch", fetch), Ran("pull", pull)>>
                   ELSE <<Ran("fetch", fetch)>>]

\* Variant of getRepoHeadHash: simpleGit(repoDir) is built before the try
\* block, as in pullRepo.
getRepoHeadHashBuildsOutsideTry(repoDir, tree, hd, revparse) ==
  IF SimpleGitThrows(tree)
  THEN [threw |-> TRUE, value |-> None, log |-> <<>>]
  ELSE LET res == InTree(tree, revparse)
       IN [threw |-> FALSE,
           value |-> IF res.ok THEN hd ELSE Null,
           log |-> <<Ran("revparse", res)>>]

\* getRepoHeadHash: simpleGit(repoDir) and revparse(['HEAD']) both run inside
\* the try block; the catch block returns null.
getRepoHeadHash(repoDir, tree, hd, revparse) ==
  IF SimpleGitThrows(tree)
  THEN [threw |-> FALSE, value |-> Null, log |-> <<>>]
  ELSE LET res == InTree(tree, revparse)
       IN [threw |-> FALSE,
           value |-> IF res.ok THEN hd ELSE Null,
           log |-> <<Ran("revparse", res)>>]

\* The results the commands of an update can have: a command after a failed
\* one does not run, so its result is left at Succeeded.
UpdateEnvs(ref) ==
  {[fetch |-> f, checkout |-> Succeeded, pull |-> Succeeded, clone |-> Succeeded,
    rm |-> Succeeded, head |-> "h1"] : f \in Failures}
  \cup (IF ref = None THEN {}
        ELSE {[fetch |-> Succeeded, checkout |-> c, pull |-> Succeeded,
               clone |-> Succeeded, rm |-> Succeeded, head |-> "h1"] :
                c \in Failures})
  \cup {[fetch |-> Succeeded, checkout |-> Succeeded, pull |-> pl,
         clone |-> Succeeded, rm |-> Succeeded, head |-> h] :
          pl \in GitResults, h \in Hashes}

\* The results of a clone and of the rm that follows a failed one.
CloneEnvs ==
  {[fetch |-> Succeeded, checkout |-> Succeeded, pull |-> Succeeded,
    clone |-> c, rm |-> x, head |-> h] :
     c \in GitResults, x \in {Succeeded, Failed({})}, h \in Hashes}

\* The segments of an absolute path after "." and ".." are resolved.
PathSegments(p) == ResolveAll(Split(p), 1, <<>>, TRUE)

\* path.resolve(p) in a process whose working directory is cwd: p when it is
\* absolute, cwd/p otherwise, normalized and without a trailing slash.
resolve(p, cwd) ==
  LET full == IF p # <<>> /\ p[1] = "/" THEN p ELSE cwd \o <<"/">> \o p
  IN <<"/">> \o Joined(PathSegments(full))

\* Whether path p is the path root or lies under it, segment by segment.
Under(p, root) ==
  LET a == PathSegments(p)
      b == PathSegments(root)
  IN Len(a) >= Len(b) /\ SubSeq(a, 1, Len(b)) = b

\* rm(target, {recursive: true, force: true}) on the directories of tree:
\* the target and everything under it is gone; a missing target is no error.
RmRecursive(tree, target) ==
  [d \in DOMAIN tree |-> IF Under(d, target) THEN "absent" ELSE tree[d]]

\* Variant of cleanupTempDir: the prefix test leaves the separator out.
cleanupTempDirPrefixOnly(dir, cwd, tmp, tree) ==
  LET normalizedDir == normalize(resolve(dir, cwd))
      normalizedTmpDir == normalize(resolve(tmp, cwd))
  IN IF ~StartsWith(normalizedDir, normalizedTmpDir)
     THEN [threw |-> TRUE, error |-> PlainError, tree |-> tree]
     ELSE [threw |-> FALSE, error |-> NoError,
           tree |-> RmRecursive(tree, resolve(dir, cwd))]

\* cleanupTempDir(dir) in a process with working directory cwd and
\* os.tmpdir() = tmp, on the directories of tree: throws unless the
\* normalized resolved dir starts with the temp directory plus a separator or
\* equals it, then removes dir (which the system resolves against cwd).
cleanupTempDir(dir, cwd, tmp, tree) ==
  LET normalizedDir == normalize(resolve(dir, cwd))
      normalizedTmpDir == normalize(resolve(tmp, cwd))
  IN IF ~StartsWith(normalizedDir, normalizedTmpDir \o <<"/">>)
        /\ normalizedDir # normalizedTmpDir
     THEN [threw |-> TRUE, error |-> PlainError, tree |-> tree]
     ELSE [threw |-> FALSE, error |-> NoError,
           tree |-> RmRecursive(tree, resolve(dir, cwd))]

\* `call` before any call of the checkout manager.
NoCall ==
  [op |-> "none", path |-> None, ref |-> None, before |-> None,
   threw |-> FALSE, error |-> NoError, value |-> None, log |-> <<>>]

\* Every repo checked out on its default branch, nothing else on disk.
CheckedOut == [d \in Dirs |-> IF d \in Repos THEN "repo" ELSE "absent"]

----------------------------------------------------------------------------
(* State machine *)

\* What `last` holds after an operation other than reconcileRepoSkills.
Plain(op, r) ==
  [op |-> op, repo |-> r, threw |-> FALSE, added |-> <<>>, removed |-> <<>>,
   tracked |-> <<>>, discovered |-> <<>>, installs |-> <<>>, rms |-> <<>>,
   failed |-> {}, now |-> 0, present |-> FALSE, value |-> <<>>,
   rmFailed |-> {}, rmMissing |-> {}]

\* The links of a filesystem that agrees with lock lk: every skill of
\* lock.skills is present in every place.
LinksOf(lk) == LinkPlaces \X DOMAIN lk.skills

\* A repo entry as addRepoToLock creates it.
RepoEntry(r, skillNames, headHash) ==
  [url |-> Url(r), ref |-> None, skills |-> skillNames, lastFetched |-> 0,
   headHash |-> headHash]

\* The manifests a call can be handed: every name is absent, a legacy
\* standalone install, or a repo-symlink entry written by an earlier reconcile
\* of a repo that holds it; every repo of repoSet is untracked or tracked with
\* any duplicate-free list of its names and a stored hash of hashSet. Lock and
\* checkout need not agree: the lock may have been edited, an earlier run
\* interrupted, a repo entry removed.
Manifests(repoSet, hashSet) ==
  {[version |-> CURRENT_VERSION,
    skills |-> [n \in {m \in Names : kind[m] # "absent"} |->
                  IF kind[n] = "legacy" THEN LegacyEntry
                  ELSE NewEntry(kind[n], Options(kind[n]), 0)],
    repos |-> [r \in DOMAIN tracked |->
                 RepoEntry(r, tracked[r].skills, tracked[r].headHash)],
    repoKeys |-> KeysIn(DOMAIN tracked)] :
     kind \in {k \in [Names -> {"absent", "legacy"} \cup repoSet] :
                 \A n \in Names : k[n] \in repoSet => n \in RepoNames(k[n])},
     tracked \in UNION {
       {t \in [present -> [skills : ListsOver(Names), headHash : hashSet]] :
          \A r \in present : Range(t[r].skills) \subseteq RepoNames(r)} :
       present \in SUBSET repoSet}}

\* What discovery can find in the checkouts.
Checkouts ==
  {c \in [Repos -> ListsOver(Names)] :
     \A r \in Repos : Range(c[r]) \subseteq RepoNames(r)}

\* Variant of ReconcileCall: the call persists the lock it has mutated.
ReconcileCallWritesLock(r, now, failAt, unsuccessful, rmFailed) ==
  LET added == AddedOf(TrackedSkills(lock, r), checkout[r])
      res == reconcileRepoSkills(r, checkout[r], lock, Options(r), now, failAt,
                                 rmFailed)
      thrown == IF res.threw
                THEN {<<added[failAt[1]], AgentList[failAt[2]]>>}
                ELSE {}
  IN /\ unsuccessful \subseteq Range(res.installs)
     /\ lock' = res.lock
     /\ disk' = res.lock
     /\ links' = LinksAfter(links, SelectSeq(res.rms, LAMBDA t : t \notin res.caught),
                             res.installs, unsuccessful)
     /\ last' = [op |-> "reconcile", repo |-> r, threw |-> res.threw,
                 added |-> res.added, removed |-> res.removed,
                 tracked |-> TrackedSkills(lock, r),
                 discovered |-> checkout[r],
                 installs |-> res.installs, rms |-> res.rms,
                 failed |-> unsuccessful \cup thrown,
                 now |-> now, present |-> r \in DOMAIN lock.repos,
                 value |-> <<>>, rmFailed |-> res.caught,
                 rmMissing |-> Range(res.rms) \ links]
     /\ UNCHANGED <<checkout, head, write, gitVars>>

\* A reconcile call on repo r against its current checkout, with the install
\* calls of `unsuccessful` returning success = false (the call does not look
\* at what the installer returns). The call either returns or is aborted by
\* an installer that throws; an rm of rmFailed rejects and removes nothing.
\* last.rmMissing lists the rm targets that were not on disk before the call. last.failed lists the install calls that
\* failed, in either way. The manifest file is not written: the module's
\* only filesystem import is rm.
ReconcileCall(r, now, failAt, unsuccessful, rmFailed) ==
  LET added == AddedOf(TrackedSkills(lock, r), checkout[r])
      res == reconcileRepoSkills(r, checkout[r], lock, Options(r), now, failAt,
                                 rmFailed)
      thrown == IF res.threw
                THEN {<<added[failAt[1]], AgentList[failAt[2]]>>}
                ELSE {}
  IN /\ unsuccessful \subseteq Range(res.installs)
     /\ lock' = res.lock
     /\ links' = LinksAfter(links, SelectSeq(res.rms, LAMBDA t : t \notin res.caught),
                             res.installs, unsuccessful)
     /\ last' = [op |-> "reconcile", repo |-> r, threw |-> res.threw,
                 added |-> res.added, removed |-> res.removed,
                 tracked |-> TrackedSkills(lock, r),
                 discovered |-> checkout[r],
                 installs |-> res.installs, rms |-> res.rms,
                 failed |-> unsuccessful \cup thrown,
                 now |-> now, present |-> r \in DOMAIN lock.repos,
                 value |-> <<>>, rmFailed |-> res.caught,
                 rmMissing |-> Range(res.rms) \ links]
     /\ UNCHANGED <<checkout, head, disk, write, gitVars>>

\* A reconcile call in which every install call that returns has linked the
\* skill.
Reconcile(r) ==
  \E now \in Times :
    \E failAt \in FailPoints(AddedOf(TrackedSkills(lock, r), checkout[r]), AgentList) :
      ReconcileCall(r, now, failAt, {}, {})

\* A reconcile call in which at least one install call returns
\* success = false.
ReconcileUnsuccessful(r) ==
  \E now \in Times :
    \E failAt \in FailPoints(AddedOf(TrackedSkills(lock, r), checkout[r]), AgentList) :
      \E unsuccessful \in SUBSET InstallCalls(AddedOf(TrackedSkills(lock, r), checkout[r]),
                                              AgentList) \ {{}} :
        ReconcileCall(r, now, failAt, unsuccessful, {})

\* The rm calls a reconcile makes for the removed names.
RmCalls(removed, agentList) ==
  UNION {Range(RmTargets(removed[k], agentList)) : k \in 1 .. Len(removed)}

\* A reconcile call in which at least one rm of step 4 rejects and leaves
\* its target in place.
ReconcileRmFails(r) ==
  \E now \in Times :
    \E failAt \in FailPoints(AddedOf(TrackedSkills(lock, r), checkout[r]), AgentList) :
      \E rmFailed \in SUBSET RmCalls(RemovedOf(TrackedSkills(lock, r), checkout[r]),
                                     AgentList) \ {{}} :
        ReconcileCall(r, now, failAt, {}, rmFailed)

\* What `last` holds after a repo-tracking helper: the operation, the repo
\* and whether lock.repos had the key before the call.
Helper(op, r) == [Plain(op, r) EXCEPT !.present = r \in DOMAIN lock.repos]

\* addRepoToLock(r, {url}, skillNames) called at time now.
AddRepoToLockCall(r, skillNames, now) ==
  /\ lock' = addRepoToLock(lock, r, [url |-> Url(r), ref |-> None], skillNames, now)
  /\ last' = Helper("addRepoToLock", r)
  /\ UNCHANGED <<checkout, head, links, disk, write, gitVars>>

AddRepoToLock(r) ==
  \E skillNames \in ListsOver(RepoNames(r)), now \in Times :
    AddRepoToLockCall(r, skillNames, now)

RemoveSkillFromRepo(r) ==
  \E skillName \in Names :
    /\ lock' = removeSkillFromRepo(lock, r, skillName)
    /\ last' = Helper("removeSkillFromRepo", r)
    /\ UNCHANGED <<checkout, head, links, disk, write, gitVars>>

RemoveRepoFromLock(r) ==
  /\ lock' = removeRepoFromLock(lock, r)
  /\ last' = Helper("removeRepoFromLock", r)
  /\ UNCHANGED <<checkout, head, links, disk, write, gitVars>>

\* getOrphanedRepos(): the caller gets the list, the manifest stays as it is.
GetOrphanedRepos ==
  /\ last' = [Plain("getOrphanedRepos", None) EXCEPT
                !.value = getOrphanedRepos(lock)]
  /\ UNCHANGED <<lock, checkout, head, links, disk, write, gitVars>>

\* The checkout of r changes on disk (a pull, or an edit by the user):
\* discovery finds another list of skills from now on.
CheckoutChanges(r) ==
  \E discovered \in ListsOver(RepoNames(r)) :
    /\ discovered # checkout[r]
    /\ checkout' = [checkout EXCEPT ![r] = discovered]
    /\ last' = Plain("checkoutChanges", r)
    /\ UNCHANGED <<lock, head, links, disk, write, gitVars>>

\* A commit arrives in the checkout of r: HEAD moves, the skills may change.
HeadMoves(r) ==
  \E h \in Hashes \ {head[r]}, discovered \in ListsOver(RepoNames(r)) :
    /\ head' = [head EXCEPT ![r] = h]
    /\ checkout' = [checkout EXCEPT ![r] = discovered]
    /\ last' = Plain("headMoves", r)
    /\ UNCHANGED <<lock, links, disk, write, gitVars>>

\* Variant of RepoChanged: an entry without a stored hash is skipped.
RepoChangedOnlyIfStored(storedHash, currentHash) ==
  storedHash # None /\ storedHash # currentHash

\* The caller's change-detection predicate:
\* !storedHash || storedHash !== currentHash
RepoChanged(storedHash, currentHash) ==
  storedHash = None \/ storedHash # currentHash

\* The states a directory can be in.
TreeStates == {"absent", "dir", "repo"}

\* What revparse can do in a git working tree.
RevparseResults == {Succeeded, Failed({})}

\* The caller records the checkout's HEAD in the repo entry after an update:
\* headHash = currentHash ?? undefined.
StoreHeadHash(r) ==
  \E revparse \in RevparseResults :
    LET currentHash == getRepoHeadHash(r, trees[r], head[r], revparse).value
    IN /\ r \in DOMAIN lock.repos
       /\ lock' = [lock EXCEPT !.repos = [@ EXCEPT ![r] =
                     [@ EXCEPT !.headHash = IF currentHash = Null THEN None
                                            ELSE currentHash]]]
       /\ last' = Plain("storeHeadHash", r)
       /\ UNCHANGED <<checkout, head, links, disk, write, gitVars>>

\* ensureRepoCheckout(url, {ref}) for the repo with identity r. git refuses
\* to clone into a directory that is not empty, so the clone fails when a
\* checkout lies under the path. mkdir with recursive: true creates the
\* missing directories above the path, and a successful rm with
\* recursive: true removes every checkout under it.
EnsureRepoCheckout(r, ref) ==
  LET checkoutPath == CheckoutDir(r, ref)
      notEmpty == \E d \in Contains(checkoutPath) : trees[d] # "absent"
  IN \E env \in IF trees[checkoutPath] = "repo" THEN UpdateEnvs(ref)
                ELSE IF notEmpty THEN {e \in CloneEnvs : e.clone = Failed({})}
                ELSE CloneEnvs :
       LET res == ensureRepoCheckout(checkoutPath, ref, trees[checkoutPath],
                                     head[checkoutPath], env)
           ran(op) == \E i \in 1 .. Len(res.log) :
                        res.log[i].op = op /\ res.log[i].result.ok
       IN /\ trees' = [d \in Dirs |->
                         IF d = checkoutPath THEN res.tree
                         ELSE IF d \in Contains(checkoutPath) /\ ran("rm")
                         THEN "absent"
                         ELSE IF checkoutPath \in Contains(d) /\ ran("mkdir")
                                 /\ trees[d] = "absent"
                         THEN "dir"
                         ELSE trees[d]]
          /\ head' = [head EXCEPT ![checkoutPath] = res.head]
          /\ call' = [op |-> "ensureRepoCheckout", path |-> checkoutPath,
                      ref |-> ref, before |-> trees[checkoutPath],
                      threw |-> res.threw, error |-> res.error,
                      value |-> res.value, log |-> res.log]
          /\ UNCHANGED <<lock, checkout, last, links, disk, write>>

\* cloneRepo(url, ref) into a new temp directory.
CloneRepo(ref) ==
  \E env \in {e \in CloneEnvs : e.head = "h1"} :
    LET res == cloneRepo(env)
    IN /\ trees' = [trees EXCEPT ![TempDir] = res.tree]
       /\ call' = [op |-> "cloneRepo", path |-> TempDir, ref |-> ref,
                   before |-> "absent", threw |-> res.threw,
                   error |-> res.error, value |-> res.value, log |-> res.log]
       /\ UNCHANGED <<lock, checkout, head, last, links, disk, write>>

\* pullRepo(repoDir).
PullRepo(repoDir) ==
  \E env \in UpdateEnvs(None) :
    LET res == pullRepo(repoDir, trees[repoDir], head[repoDir], env)
    IN /\ head' = [head EXCEPT ![repoDir] = res.head]
       /\ call' = [op |-> "pullRepo", path |-> repoDir, ref |-> None,
                   before |-> trees[repoDir], threw |-> res.threw,
                   error |-> res.error, value |-> res.value, log |-> res.log]
       /\ UNCHANGED <<lock, checkout, last, links, disk, write, trees>>

\* getRepoHeadHash(repoDir).
GetRepoHeadHash(repoDir) ==
  \E revparse \in RevparseResults :
    LET res == getRepoHeadHash(repoDir, trees[repoDir], head[repoDir], revparse)
    IN /\ call' = [op |-> "getRepoHeadHash", path |-> repoDir, ref |-> None,
                   before |-> trees[repoDir], threw |-> res.threw,
                   error |-> NoError, value |-> res.value, log |-> res.log]
       /\ UNCHANGED <<lock, checkout, head, last, links, disk, write, trees>>

\* URL pieces: hosts, owner/repo paths, credentials, user names.
UrlHosts == { <<"h">>, <<"g", ".", "c">> }

UrlPaths == { <<"o", "/", "r">>, <<"o", "/", "s", "/", "r">> }

Credentials == { <<>>, <<"u", "@">>, <<"u", ":", "p", "@">> }

UserNames == { <<"g", "i", "t">>, <<"u">>, <<"g", "i", "t", "x">> }

\* What may follow the path: nothing, a .git suffix, one or two slashes, and
\* a .git suffix followed by slashes.
UrlEndings ==
  { suffix \o slashes : suffix \in {<<>>, DotGit},
                        slashes \in {<<>>, <<"/">>, <<"/", "/">>} }

\* The URLs of the remote host/path: the https, http, ssh:// and git://
\* forms with and without credentials, and the git@host:path form.
SameRemoteUrls(host, path) ==
  { protocol \o credential \o host \o <<"/">> \o path \o ending :
      protocol \in Protocols, credential \in Credentials, ending \in UrlEndings }
  \cup { GitAt \o host \o <<":">> \o path \o ending : ending \in UrlEndings }

\* The scp-style URLs user@host:path of the remote host/path.
ScpUrls(host, path) ==
  { user \o <<"@">> \o host \o <<":">> \o path : user \in UserNames }

\* Every string of at most MaxOdd characters over the characters the
\* rewrites look for.
MaxOdd == 3

OddChars == {"@", "/", ":", "."}

OddStrings == UNION { [1..n -> OddChars] : n \in 0..MaxOdd }

\* Inputs that repeat what one rewrite strips.
RepeatedUrls ==
  { protocol \o protocol \o <<"h", "/", "r">> : protocol \in Protocols }
  \cup { <<"a", "@", "b", "@", "h", "/", "r">>,
         <<"h", "/", "r">> \o DotGit \o DotGit,
         <<"h", "/", "r", "@", "v">> }

Urls ==
  UNION { SameRemoteUrls(host, path) \cup ScpUrls(host, path) :
            host \in UrlHosts, path \in UrlPaths }
  \cup OddStrings \cup RepeatedUrls

\* What a getRepoCheckoutPath call sees of its process: SKILLS_REPOS_DIR
\* not set, set to the empty string or set to a directory, and the user's
\* home directory.
Environments ==
  [SKILLS_REPOS_DIR : {Undefined, <<>>, <<"/", "c">>, <<"/", "c", "/", "d">>},
   homedir : {<<"/", "u">>}]

\* The refs callers pass: none, tags and branches.
RefInputs ==
  {Undefined, <<"v", "1">>, <<"v", "2">>, <<"v", "1", ".", "0">>, <<"f", "/", "x">>}

\* The URLs checkout paths are asked for.
CheckoutUrls ==
  { <<"h", "t", "t", "p", "s", ":", "/", "/", "h", "/", "o", "/", "r">> \o DotGit,
    <<"h", "t", "t", "p", "s", ":", "/", "/", "u", "@", "h", "/", "o", "/", "r">>,
    GitAt \o <<"h", ":", "o", "/", "r">>,
    <<"s", "s", "h", ":", "/", "/">> \o GitAt \o <<"g", ".", "c", "/", "o", "/", "r", "/">> }

\* One call of normalizeGitUrl.
NormalizeGitUrl ==
  \E url \in Urls :
    /\ call' = [op |-> "normalizeGitUrl", path |-> url, ref |-> None,
                before |-> None, threw |-> FALSE, error |-> NoError,
                value |-> normalizeGitUrl(url), log |-> <<>>]
    /\ UNCHANGED <<lock, checkout, head, last, links, disk, write, trees>>

\* One call of getRepoCheckoutPath in some environment.
GetRepoCheckoutPath ==
  \E env \in Environments, ref \in RefInputs :
    \E url \in CheckoutUrls :
      /\ call' = [op |-> "getRepoCheckoutPath", path |-> url, ref |-> ref,
                  before |-> env, threw |-> FALSE, error |-> NoError,
                  value |-> getRepoCheckoutPath(url, ref, env), log |-> <<>>]
      /\ UNCHANGED <<lock, checkout, head, last, links, disk, write, trees>>

\* The directories of the file system that cleanupTempDir is tried on: the
\* temp directory /t with a clone x in it, a sibling whose name starts with
\* the temp directory's (/tx), and a directory elsewhere.
FsPaths ==
  { <<"/", "t">>, <<"/", "t", "/", "x">>, <<"/", "t", "/", "x", "/", "y">>,
    <<"/", "t", "x">>, <<"/", "e">>, <<"/", "e", "/", "x">> }

\* The arguments of cleanupTempDir: absolute and relative paths, with "."
\* and ".." segments, trailing and doubled slashes.
DirInputs ==
  FsPaths \cup
  { <<"/">>, <<>>, <<".">>, <<"x">>, <<"t", "/", "x">>, <<".", ".", "/", "e">>,
    <<"/", "t", "/">>, <<"/", "t", "/", "x", "/">>,
    <<"/", "t", "/", "/", "x">>, <<"/", "t", "/", ".", "/", "x">>,
    <<"/", "t", "/", ".", ".", "/", "e">>,
    <<"/", "t", "/", "x", "/", ".", ".", "/", ".", ".", "/", "e", "/", "x">>,
    <<"/", "e", "/", ".", ".", "/", "t", "/", "x">>,
    <<"/", "t", "x", "/", ".", ".", "/", "t", "/", "x", "/", "y">> }

\* One call of cleanupTempDir, in a process with working directory /, /t
\* or /e for which os.tmpdir() returns /t, or the root when TMPDIR is "/".
CleanupTempDir ==
  \E dir \in DirInputs, cwd \in { <<"/">>, <<"/", "t">>, <<"/", "e">> },
     tmp \in { <<"/", "t">>, <<"/">> } :
    LET res == cleanupTempDir(dir, cwd, tmp, trees)
    IN /\ trees' = res.tree
       /\ call' = [op |-> "cleanupTempDir", path |-> dir, ref |-> None,
                   before |-> [tree |-> trees, cwd |-> cwd, tmp |-> tmp],
                   threw |-> res.threw, error |-> res.error,
                   value |-> None, log |-> <<>>]
       /\ UNCHANGED <<lock, checkout, head, last, links, disk, write>>

\* Manifests of the schema versions before the current one: skills as
\* they were installed then, with or without dismissed-prompt flags, and no
\* repos map.
OldVersions == 1 .. (CURRENT_VERSION - 1)

OldManifests ==
  LET docs == {[version |-> v, skills |-> [n \in S |-> LegacyEntry]] :
                 v \in OldVersions, S \in SUBSET Names}
  IN docs \cup {doc @@ [dismissed |-> [findSkillsPrompt |-> flag]] :
                  doc \in docs, flag \in BOOLEAN}

\* What a command can find at the manifest path.
ManifestFiles ==
  {MissingFile, UnparsableFile, NotAManifest}
  \cup {Truncated(doc) : doc \in OldManifests}
  \cup OldManifests \cup Manifests({"r1"}, {None})

\* A command reads the manifest: it holds the result, and the file holds it
\* too.
ReadSkillLock ==
  LET res == readSkillLock(disk)
  IN /\ lock' = res.lock
     /\ disk' = res.file
     /\ last' = [Plain("readSkillLock", None) EXCEPT !.threw = res.threw]
     /\ UNCHANGED <<checkout, head, links, write, gitVars>>

\* The file changes between two commands: another version of the CLI wrote
\* it, the user edited or deleted it.
FileChanges ==
  \E file \in ManifestFiles \ {disk} :
    /\ disk' = file
    /\ last' = Plain("fileChanges", None)
    /\ UNCHANGED <<lock, checkout, head, links, write, gitVars>>

\* writeSkillLock(lock) begins: the serialization starts.
StartWrite ==
  /\ write.pc = "idle"
  /\ disk # lock
  /\ LET files == StartWriting(Files(disk, write.temp), lock)
     IN /\ disk' = files.manifest
        /\ write' = [pc |-> "writing", temp |-> files.temp, old |-> disk, new |-> lock]
  /\ last' = Plain("writeSkillLock", None)
  /\ UNCHANGED <<lock, checkout, head, links, gitVars>>

\* The serialization is complete.
FinishWrite ==
  /\ write.pc = "writing"
  /\ LET files == FinishWriting(Files(disk, write.temp), write.new)
     IN /\ disk' = files.manifest
        /\ write' = [write EXCEPT !.pc = "written", !.temp = files.temp]
  /\ UNCHANGED <<lock, checkout, head, last, links, gitVars>>

\* The complete temporary file takes the place of the manifest.
ReplaceManifest ==
  /\ write.pc = "written"
  /\ LET files == Replace(Files(disk, write.temp))
     IN /\ disk' = files.manifest
        /\ write' = [write EXCEPT !.pc = "idle", !.temp = files.temp]
  /\ UNCHANGED <<lock, checkout, head, last, links, gitVars>>

\* The writing process dies: the files stay as they are.
Crash ==
  /\ write.pc # "idle"
  /\ write' = [write EXCEPT !.pc = "idle"]
  /\ last' = Plain("crash", None)
  /\ UNCHANGED <<lock, checkout, head, links, disk, gitVars>>

\* Another process reads the manifest, at any moment of a write.
ReadByOther ==
  LET res == readSkillLock(disk)
  IN /\ disk' = res.file
     /\ last' = [Plain("readByOther", None) EXCEPT !.threw = res.threw,
                                                   !.value = res.lock]
     /\ UNCHANGED <<lock, checkout, head, links, write, gitVars>>

\* The caller persists the lock object it holds (the write of the lock
\* store): the manifest file now holds what the object holds.
WriteSkillLock ==
  /\ disk # lock
  /\ disk' = lock
  /\ last' = Plain("writeSkillLock", None)
  /\ UNCHANGED <<lock, checkout, head, links, write, gitVars>>

----------------------------------------------------------------------------
(* Specifications *)

\* Reconciliation of any manifest against any checkout.
Init ==
  /\ lock \in Manifests(Repos, {None})
  /\ checkout \in Checkouts
  /\ head = [p \in Paths |-> "h1"]
  /\ last = Plain("init", None)
  /\ links = LinksOf(lock)
  /\ disk = createEmptyLockFile
  /\ write = NoWrite
  /\ trees = CheckedOut
  /\ call = NoCall

Next ==
  \E r \in Repos :
    \/ Reconcile(r)
    \/ CheckoutChanges(r)

Spec == Init /\ [][Next]_vars

\* All lock operations from an empty manifest (createEmptyLockFile), with
\* checkouts that hold no skill yet; skills appear in the checkout of r1.
InitManifest ==
  /\ lock = createEmptyLockFile
  /\ checkout = [r \in Repos |-> <<>>]
  /\ head = [p \in Paths |-> "h1"]
  /\ last = Plain("init", None)
  /\ links = LinksOf(lock)
  /\ disk = createEmptyLockFile
  /\ write = NoWrite
  /\ trees = CheckedOut
  /\ call = NoCall

NextManifest ==
  \/ \E r \in Repos :
       \/ Reconcile(r)
       \/ AddRepoToLock(r)
       \/ RemoveSkillFromRepo(r)
       \/ RemoveRepoFromLock(r)
  \/ CheckoutChanges("r1")

SpecManifest == InitManifest /\ [][NextManifest]_vars

\* The repo-tracking helpers alone, on a manifest with installed skills
\* (absent, legacy, or linked from a repo) and no repo entry yet.
InitStore ==
  /\ lock \in {m \in Manifests(Repos, {None}) : m.repos = <<>>}
  /\ checkout = [r \in Repos |-> <<>>]
  /\ head = [p \in Paths |-> "h1"]
  /\ last = Plain("init", None)
  /\ links = LinksOf(lock)
  /\ disk = createEmptyLockFile
  /\ write = NoWrite
  /\ trees = CheckedOut
  /\ call = NoCall

NextStore ==
  \/ \E r \in Repos :
       \/ AddRepoToLock(r)
       \/ RemoveSkillFromRepo(r)
       \/ RemoveRepoFromLock(r)
  \/ GetOrphanedRepos

SpecStore == InitStore /\ [][NextStore]_vars

\* Commands that read whatever is at the manifest path.
InitRead ==
  /\ lock = createEmptyLockFile
  /\ checkout = [r \in Repos |-> <<>>]
  /\ head = [p \in Paths |-> "h1"]
  /\ last = Plain("init", None)
  /\ links = {}
  /\ disk \in ManifestFiles
  /\ write = NoWrite
  /\ trees = CheckedOut
  /\ call = NoCall

NextRead ==
  \/ ReadSkillLock
  \/ FileChanges

SpecRead == InitRead /\ [][NextRead]_vars

\* A command changes the repo entry of r1 and writes the manifest, while
\* the process can die at any step and another process reads the file.
InitWrite ==
  /\ lock \in {m \in Manifests({"r1"}, {None}) : m.skills = <<>> /\ m.repos # <<>>}
  /\ checkout = [r \in Repos |-> <<>>]
  /\ head = [p \in Paths |-> "h1"]
  /\ last = Plain("init", None)
  /\ links = {}
  /\ disk = lock
  /\ write = [NoWrite EXCEPT !.old = disk, !.new = disk]
  /\ trees = CheckedOut
  /\ call = NoCall

NextWrite ==
  \/ write.pc = "idle" /\ AddRepoToLock("r1")
  \/ StartWrite
  \/ FinishWrite
  \/ ReplaceManifest
  \/ Crash
  \/ ReadByOther

SpecWrite == InitWrite /\ [][NextWrite]_vars

\* Reconciliation alone, from a manifest in which every repo is tracked with
\* no skill yet: lock.repos changes only through reconcileRepoSkills.
InitSync ==
  /\ \E legacy \in SUBSET Names :
       lock = [createEmptyLockFile EXCEPT
                 !.skills = [n \in legacy |-> LegacyEntry],
                 !.repos = [r \in Repos |-> RepoEntry(r, <<>>, None)],
                 !.repoKeys = KeysIn(Repos)]
  /\ checkout = [r \in Repos |-> <<>>]
  /\ head = [p \in Paths |-> "h1"]
  /\ last = Plain("init", None)
  /\ links = LinksOf(lock)
  /\ disk = createEmptyLockFile
  /\ write = NoWrite
  /\ trees = CheckedOut
  /\ call = NoCall

SpecSync == InitSync /\ [][Next]_vars

\* One repo with revision hashes: commits arrive, the caller stores the HEAD
\* hash, reconciliation runs whether or not the hashes agree.
InitHash ==
  /\ lock \in Manifests({"r1"}, {None} \cup Hashes)
  /\ checkout \in {c \in Checkouts : c["r2"] = <<>>}
  /\ head = [p \in Paths |-> "h1"]
  /\ last = Plain("init", None)
  /\ links = LinksOf(lock)
  /\ disk = createEmptyLockFile
  /\ write = NoWrite
  /\ trees = CheckedOut
  /\ call = NoCall

NextHash ==
  \/ Reconcile("r1")
  \/ CheckoutChanges("r1")
  \/ HeadMoves("r1")
  \/ StoreHeadHash("r1")

SpecHash == InitHash /\ [][NextHash]_vars

\* One tracked repo and an installer that can fail in both ways: by throwing
\* and by returning success = false.
InitInstall ==
  /\ lock = [createEmptyLockFile EXCEPT
               !.repos = [r \in {"r1"} |-> RepoEntry(r, <<>>, None)],
               !.repoKeys = KeysIn({"r1"})]
  /\ checkout \in {c \in Checkouts : c["r2"] = <<>>}
  /\ head = [p \in Paths |-> "h1"]
  /\ last = Plain("init", None)
  /\ links = LinksOf(lock)
  /\ disk = createEmptyLockFile
  /\ write = NoWrite
  /\ trees = CheckedOut
  /\ call = NoCall

NextInstall ==
  \/ Reconcile("r1")
  \/ ReconcileUnsuccessful("r1")
  \/ CheckoutChanges("r1")

SpecInstall == InitInstall /\ [][NextInstall]_vars

\* One tracked repo whose rm calls can reject. Its skills were installed by
\* earlier reconciles, in which the installer may have returned
\* success = false for cursor and left that link missing on disk.
InitCleanup ==
  /\ lock \in {m \in Manifests({"r1"}, {None}) :
                /\ "r1" \in DOMAIN m.repos
                /\ DOMAIN m.skills = Range(m.repos["r1"].skills)
                /\ \A n \in DOMAIN m.skills : m.skills[n] # LegacyEntry}
  /\ checkout \in {c \in Checkouts : c["r2"] = <<>>}
  /\ head = [p \in Paths |-> "h1"]
  /\ last = Plain("init", None)
  /\ links \in {LinksOf(lock) \ ({"cursor"} \X unlinked) :
                  unlinked \in SUBSET DOMAIN lock.skills}
  /\ disk = createEmptyLockFile
  /\ write = NoWrite
  /\ trees = CheckedOut
  /\ call = NoCall

NextCleanup ==
  \/ Reconcile("r1")
  \/ ReconcileRmFails("r1")
  \/ CheckoutChanges("r1")

SpecCleanup == InitCleanup /\ [][NextCleanup]_vars

\* The lock object and the manifest file: the caller has read the file into
\* the object, reconciles repo r1 and writes the object back when it chooses.
InitPersist ==
  /\ disk \in Manifests({"r1"}, {None})
  /\ write = NoWrite
  /\ lock = disk
  /\ checkout \in {c \in Checkouts : c["r2"] = <<>>}
  /\ head = [p \in Paths |-> "h1"]
  /\ last = Plain("init", None)
  /\ links = LinksOf(lock)
  /\ trees = CheckedOut
  /\ call = NoCall

NextPersist ==
  \/ Reconcile("r1")
  \/ CheckoutChanges("r1")
  \/ WriteSkillLock

SpecPersist == InitPersist /\ [][NextPersist]_vars

\* The checkout manager on a machine with no checkout yet: repo r1 on its
\* default branch and pinned to v1, and temp clones.
InitGit ==
  /\ lock = createEmptyLockFile
  /\ checkout = [r \in Repos |-> <<>>]
  /\ head = [p \in Paths |-> "h1"]
  /\ last = Plain("init", None)
  /\ links = {}
  /\ disk = createEmptyLockFile
  /\ write = NoWrite
  /\ trees = [d \in Dirs |-> "absent"]
  /\ call = NoCall

GitPaths == {CheckoutDir("r1", ref) : ref \in Refs}

NextGit ==
  \/ \E ref \in Refs : EnsureRepoCheckout("r1", ref)
  \/ \E ref \in Refs : CloneRepo(ref)
  \/ \E repoDir \in GitPaths : PullRepo(repoDir)
  \/ \E repoDir \in GitPaths : GetRepoHeadHash(repoDir)

SpecGit == InitGit /\ [][NextGit]_vars

\* The checkouts of repo r1 and of the repo nested under it.
NextNested ==
  \/ EnsureRepoCheckout("r1", None)
  \/ EnsureRepoCheckout(NestedRepo, None)

SpecNested == InitGit /\ [][NextNested]_vars

\* The repository identity functions applied to URLs, refs and environments.
NextUrl ==
  \/ NormalizeGitUrl
  \/ GetRepoCheckoutPath

SpecUrl == InitGit /\ [][NextUrl]_vars

\* cleanupTempDir on a file system in which every directory of FsPaths
\* exists.
InitTemp ==
  /\ lock = createEmptyLockFile
  /\ checkout = [r \in Repos |-> <<>>]
  /\ head = [p \in Paths |-> "h1"]
  /\ last = Plain("init", None)
  /\ links = {}
  /\ disk = createEmptyLockFile
  /\ write = NoWrite
  /\ trees = [d \in FsPaths |-> "dir"]
  /\ call = NoCall

SpecTemp == InitTemp /\ [][CleanupTempDir]_vars

----------------------------------------------------------------------------
(* Properties *)

\* The latest operation is a reconcile call that returned.
Completed == last.op = "reconcile" /\ ~last.threw

\* The stored headHash of repo r in lock lk replaced by h.
SetHash(lk, r, h) ==
  IF r \in DOMAIN lk.repos
  THEN [lk EXCEPT !.repos = [@ EXCEPT ![r] = [@ EXCEPT !.headHash = h]]]
  ELSE lk

\* Position of name n in the duplicate-free list s.
IndexOf(s, n) == CHOOSE i \in 1 .. Len(s) : s[i] = n

\* sub lists exactly the elements of full that are in keep, once each, in the
\* order they have in full.
IsOrderedSelection(sub, full, keep) ==
  /\ Range(sub) = Range(full) \cap keep
  /\ \A i, j \in 1 .. Len(sub) : i < j => IndexOf(full, sub[i]) < IndexOf(full, sub[j])

\* C1: two reconcile calls in a row on the same repo, with nothing changed in
\* between, both returning: the second returns added = [] and removed = [],
\* for every lock, also one without a repos entry for the repo.
C1_SecondCallFindsNothing ==
  [][(/\ Completed
      /\ last'.op = "reconcile" /\ ~last'.threw
      /\ last'.repo = last.repo)
     => (last'.added = <<>> /\ last'.removed = <<>>)]_vars

\* C2: a reconcile call that returns gives back in removed every tracked name
\* that is not discovered, and its result and the lock it leaves are the same
\* for every stored headHash of the repo entry (equal to HEAD, different,
\* or none).
C2_StoredHashIrrelevant ==
  [][(last'.op = "reconcile" /\ ~last'.threw)
     => LET r == last'.repo
        IN /\ \A n \in Range(TrackedSkills(lock, r)) \ Range(checkout[r]) :
                n \in Range(last'.removed)
           /\ \A h \in {None} \cup Hashes :
                LET alt == reconcileRepoSkills(r, checkout[r], SetHash(lock, r, h),
                                               Options(r), last'.now, <<0, 0>>,
                                               {})
                IN /\ alt.added = last'.added
                   /\ alt.removed = last'.removed
                   /\ alt.lock = SetHash(lock', r, h)]_vars

\* C2 witness: a name was removed by a call on a repo whose stored hash
\* equals the HEAD of its checkout.
C2_Witness ==
  /\ Completed
  /\ last.removed # <<>>
  /\ last.repo \in DOMAIN lock.repos
  /\ lock.repos[last.repo].headHash = head[last.repo]

\* C3: a reconcile call on a repo whose tracked names are, as a set, the
\* discovered names returns added = [] and removed = [], installs and removes
\* nothing, and leaves lock.skills and lock.repos as they were.
C3_NoChangeWhenInSync ==
  [][(/\ last'.op = "reconcile"
      /\ Range(TrackedSkills(lock, last'.repo)) = Range(checkout[last'.repo]))
     => (/\ ~last'.threw
         /\ last'.added = <<>> /\ last'.removed = <<>>
         /\ last'.installs = <<>> /\ last'.rms = <<>>
         /\ lock'.skills = lock.skills
         /\ lock'.repos = lock.repos)]_vars

\* C3 witness: a call found the tracked names and the discovered names to be
\* the same set, listed in different orders.
C3_Witness ==
  /\ last.op = "reconcile"
  /\ Range(last.tracked) = Range(last.discovered)
  /\ last.tracked # last.discovered

\* C4: a rename. After a call that returns, made with exactly one tracked
\* name x and exactly one discovered name y # x: removed = [x], added = [y],
\* lock.skills has no x, has y with installMethod repo-symlink, and the
\* repo's skills list is [y].
C4_RenameIsRemovePlusAdd ==
  (Completed /\ Len(last.tracked) = 1 /\ Len(last.discovered) = 1
             /\ last.tracked # last.discovered)
  => LET x == last.tracked[1]
         y == last.discovered[1]
     IN /\ last.removed = <<x>>
        /\ last.added = <<y>>
        /\ x \notin DOMAIN lock.skills
        /\ y \in DOMAIN lock.skills
        /\ lock.skills[y].installMethod = "repo-symlink"
        /\ lock.repos[last.repo].skills = <<y>>

\* C4 witness: such a call has returned.
C4_Witness ==
  /\ Completed
  /\ last.tracked = <<"a">>
  /\ last.discovered = <<"b">>

\* C5: a call that returns gives removed = the tracked names not discovered,
\* in tracked order, and added = the discovered names not tracked, in
\* discovery order, where the tracked list is empty for a repo without entry.
C5_DiffInListOrder ==
  [][(last'.op = "reconcile" /\ ~last'.threw)
     => LET r == last'.repo
            tracked == IF r \in DOMAIN lock.repos THEN lock.repos[r].skills ELSE <<>>
        IN /\ IsOrderedSelection(last'.removed, tracked, Names \ Range(checkout[r]))
           /\ IsOrderedSelection(last'.added, checkout[r], Names \ Range(tracked))]_vars

\* C5 witness: two names were removed, returned in a tracked order that is
\* not the alphabetical one.
C5_Witness ==
  /\ Completed
  /\ last.removed = <<"b", "a">>

\* C6: in every state reached from an empty manifest by reconcileRepoSkills,
\* addRepoToLock, removeSkillFromRepo and removeRepoFromLock calls, every
\* lock.skills entry with installMethod repo-symlink has a repoPath that is a
\* key of lock.repos.
C6_RepoPathIsTracked ==
  \A n \in DOMAIN lock.skills :
    lock.skills[n].installMethod = "repo-symlink"
    => lock.skills[n].repoPath \in DOMAIN lock.repos

\* The names whose lock.skills entry declares repo r as its source.
SkillsOfRepo(lk, r) == {n \in DOMAIN lk.skills : lk.skills[n].repoPath = r}

\* C7: after every reconcile call that returns, every repo entry (of the
\* reconciled repo and of the others) lists exactly the names whose
\* lock.skills entry has that repo as repoPath.
C7_RepoSkillsMatchEntries ==
  Completed
  => \A r \in DOMAIN lock.repos :
       Range(lock.repos[r].skills) = SkillsOfRepo(lock, r)

\* C8: a reconcile call neither deletes nor overwrites a lock.skills entry
\* that has no installMethod, whatever is tracked and discovered.
C8_LegacyEntriesUntouched ==
  [][last'.op = "reconcile"
     => \A n \in DOMAIN lock.skills :
          lock.skills[n].installMethod = None
          => (n \in DOMAIN lock'.skills /\ lock'.skills[n] = lock.skills[n])]_vars

\* How many times name n occurs in list s.
Count(s, n) == Cardinality({i \in 1 .. Len(s) : s[i] = n})

\* C9: after a reconcile call that returns, every name of added has a
\* lock.skills entry with installMethod repo-symlink, repoPath the reconciled
\* repo, an empty skillFolderHash and installedAt = updatedAt = the time of
\* the call, and occurs exactly once in the repo's skills list.
C9_AddedEntryWritten ==
  Completed
  => \A n \in Range(last.added) :
       /\ n \in DOMAIN lock.skills
       /\ lock.skills[n].installMethod = "repo-symlink"
       /\ lock.skills[n].repoPath = last.repo
       /\ lock.skills[n].skillFolderHash = ""
       /\ lock.skills[n].installedAt = last.now
       /\ lock.skills[n].updatedAt = last.now
       /\ last.repo \in DOMAIN lock.repos
       /\ Count(lock.repos[last.repo].skills, n) = 1

\* For repo r, a name is in the repo's skills list exactly when lock.skills
\* has an entry for it with repoPath r (the list is empty without an entry).
NoHalfApplied(lk, r) ==
  \A n \in Names :
    (n \in Range(TrackedSkills(lk, r))) <=> (n \in SkillsOfRepo(lk, r))

\* C10: a reconcile call aborted by a throwing installer does not corrupt the
\* lock: if no name of the reconciled repo was half-applied before the call,
\* none is in the lock the aborted call leaves behind.
C10_AbortLeavesNoHalfApplied ==
  [][(last'.op = "reconcile" /\ last'.threw /\ NoHalfApplied(lock, last'.repo))
     => NoHalfApplied(lock', last'.repo)]_vars

\* The links of skill n for every agent of the list.
LinksFor(n, agentList) ==
  UNION {InstalledBy(n, agentList[j]) : j \in 1 .. Len(agentList)}

\* C11: when an install call of a reconcile fails for an added skill, the
\* links made by the install calls that succeeded before it are on disk
\* after the call; and the next reconcile call on the same repo and checkout,
\* in which no install fails, returns that skill in added, installs it for
\* every agent and leaves it with a lock.skills entry and all its links.
C11_FailedInstallIsRetried ==
  [][/\ (last'.op = "reconcile" /\ last'.failed # {})
        => \A c \in Range(last'.installs) \ last'.failed :
             InstalledBy(c[1], c[2]) \subseteq links'
     /\ (/\ last.op = "reconcile" /\ last.failed # {}
         /\ last'.op = "reconcile" /\ last'.repo = last.repo
         /\ last'.failed = {})
        => \A c \in last.failed :
             /\ c[1] \in Range(last'.added)
             /\ \A j \in 1 .. Len(AgentList) :
                  <<c[1], AgentList[j]>> \in Range(last'.installs)
             /\ c[1] \in DOMAIN lock'.skills
             /\ LinksFor(c[1], AgentList) \subseteq links']_vars

\* C12: a reconcile call leaves the manifest file as it was, whatever it
\* does to the lock object: the file changes only when the caller writes it.
C12_ReconcileDoesNotPersist ==
  [][last'.op = "reconcile" => disk' = disk]_vars

\* C12 witness: a call has added a skill to the lock object, and the
\* manifest file still holds the lock read before the call.
C12_Witness ==
  /\ Completed
  /\ last.added # <<>>
  /\ lock # disk
  /\ \E n \in Range(last.added) : n \in DOMAIN lock.skills /\ n \notin DOMAIN disk.skills

\* C13: for every repo entry and every state of its checkout (missing, not
\* a git tree, a git tree whose revparse works or fails), the
\* change-detection predicate is true when the entry has no stored headHash,
\* and with a stored hash it is true exactly when the stored hash differs
\* from what getRepoHeadHash returns.
C13_ChangeDetection ==
  \A r \in DOMAIN lock.repos :
    \A tree \in TreeStates, revparse \in RevparseResults :
      LET storedHash == lock.repos[r].headHash
          currentHash == getRepoHeadHash(r, tree, head[r], revparse).value
      IN /\ storedHash = None => RepoChanged(storedHash, currentHash)
         /\ storedHash # None
            => (RepoChanged(storedHash, currentHash) <=> storedHash # currentHash)

\* C13 witness: a reconcile call on a repo entry without stored hash found
\* nothing to do (the skills agree), and the predicate says changed.
C13_Witness ==
  /\ Completed
  /\ last.added = <<>> /\ last.removed = <<>>
  /\ last.repo \in DOMAIN lock.repos
  /\ lock.repos[last.repo].headHash = None
  /\ RepoChanged(lock.repos[last.repo].headHash, head[last.repo])

\* The latest call of the checkout manager is ensureRepoCheckout on a path
\* that had a .git directory.
UpdatedExisting == call.op = "ensureRepoCheckout" /\ call.before = "repo"

\* The commands of the latest call that failed, of the given kinds.
FailedCommands(ops) ==
  {i \in 1 .. Len(call.log) : call.log[i].op \in ops /\ ~call.log[i].result.ok}

\* The latest call neither removed nor cloned the checkout it was called on.
CheckoutKept ==
  /\ trees[call.path] = "repo"
  /\ \A i \in 1 .. Len(call.log) : call.log[i].op \notin {"mkdir", "clone", "rm"}

\* C14 as claimed: an ensureRepoCheckout call on an existing checkout returns
\* the checkout path and raises nothing, whatever fetch, checkout or pull do,
\* and the checkout is neither removed nor cloned again; an error comes out
\* of ensureRepoCheckout only when it clones.
C14_UpdateNeverThrows ==
  UpdatedExisting
  => (/\ ~call.threw
      /\ call.value = call.path
      /\ CheckoutKept)

\* C14 amended: on an existing checkout the call raises exactly when fetch,
\* checkout(ref) or the plain pull failed with an authentication marker in
\* its text, and then the error is a GitCloneError of the authentication
\* kind; every other failure (and every failure of the pull of a ref) is
\* swallowed and the call returns the checkout path. In both cases the
\* checkout is neither removed nor cloned again.
C14_UpdateThrowsOnlyAuth ==
  UpdatedExisting
  => LET authFailed ==
           \E i \in FailedCommands({"fetch", "checkout", "pull"}) :
             call.log[i].result.message \cap AuthMarkers # {}
     IN /\ call.threw <=> authFailed
        /\ call.threw => call.error = GitCloneError(FALSE, TRUE)
        /\ ~call.threw => call.value = call.path
        /\ CheckoutKept

\* C14 witness: an update of an existing checkout whose fetch timed out has
\* returned the checkout path.
C14_Witness ==
  /\ UpdatedExisting
  /\ ~call.threw
  /\ call.value = call.path
  /\ \E i \in FailedCommands({"fetch"}) : "timed out" \in call.log[i].result.message

\* The git commands of the checkout manager that talk to the remote.
RemoteCommands == {"clone", "fetch", "checkout", "pull", "pullRef"}

\* The commands of the latest call that failed with an authentication marker
\* in the text.
AuthFailedCommands ==
  {i \in FailedCommands(RemoteCommands) :
     call.log[i].result.message \cap AuthMarkers # {}}

\* C15 as claimed: whenever a command of cloneRepo, ensureRepoCheckout or
\* pullRepo fails with an authentication marker in its text, the call raises
\* an error of the authentication kind.
C15_AuthAlwaysSurfaced ==
  AuthFailedCommands # {} => (call.threw /\ call.error.isAuthError)

\* C15 amended: a clone that fails with an authentication marker raises a
\* GitCloneError that is of the authentication kind when the text has no
\* timeout marker and of the timeout kind when it has one; fetch,
\* checkout(ref) and the plain pull of ensureRepoCheckout failing with an
\* authentication marker raise an error of the authentication kind; the
\* pull of a ref and every command of pullRepo failing that way raise
\* nothing.
C15_AuthSurfacedWhereCaught ==
  \A i \in AuthFailedCommands :
    LET op == call.log[i].op
        timedOut == call.log[i].result.message \cap TimeoutMarkers # {}
    IN IF op = "clone"
       THEN /\ call.threw
            /\ call.error.isAuthError = ~timedOut
            /\ call.error.isTimeout = timedOut
       ELSE IF call.op = "pullRepo" \/ op = "pullRef"
            THEN ~call.threw
            ELSE call.threw /\ call.error.isAuthError

\* C15 witness: an initial clone failed with 'Repository not found' and the
\* caller got an error of the authentication kind.
C15_Witness ==
  /\ call.op = "ensureRepoCheckout"
  /\ call.before = "absent"
  /\ call.threw /\ call.error.isAuthError
  /\ \E i \in AuthFailedCommands :
       call.log[i].op = "clone" /\ call.log[i].result.message = {"Repository not found"}

\* C16: when the clone of ensureRepoCheckout or of cloneRepo has failed, in
\* whatever way, the call has raised an error and there is no directory at
\* the path it cloned into.
C16_NoDirectoryAfterFailedClone ==
  (call.op \in {"ensureRepoCheckout", "cloneRepo"} /\ FailedCommands({"clone"}) # {})
  => (call.threw /\ trees[call.path] = "absent")

\* C17: every error raised by ensureRepoCheckout or cloneRepo is a
\* GitCloneError of exactly one kind, decided by the text of the failure
\* that caused it: timeout when the text has a timeout marker,
\* authentication when it has an authentication marker and no timeout
\* marker, generic (both flags false) otherwise; the two flags are never
\* set together.
C17_ErrorKindFollowsText ==
  (call.op \in {"ensureRepoCheckout", "cloneRepo"} /\ call.threw)
  => /\ call.error.name = "GitCloneError"
     /\ ~(call.error.isTimeout /\ call.error.isAuthError)
     /\ \A i \in FailedCommands({"clone", "fetch", "checkout", "pull"}) :
          LET text == call.log[i].result.message
              timeout == text \cap TimeoutMarkers # {}
              auth == text \cap AuthMarkers # {}
          IN /\ call.error.isTimeout = timeout
             /\ call.error.isAuthError = (auth /\ ~timeout)

\* The kinds of the commands the latest call ran, in the order it ran them.
CommandsRun == [i \in 1 .. Len(call.log) |-> call.log[i].op]

\* C18: an ensureRepoCheckout call on an existing checkout runs fetch first;
\* when fetch succeeds it goes on, without ref, with a plain pull and nothing
\* else, and with a ref with checkout(ref) and, when that succeeds, a pull of
\* the ref as its last command; a failed pull of the ref, whatever its text,
\* leaves the call returning the checkout path. A command runs only after
\* the ones before it succeeded. The call never clones when .git exists, and
\* when .git does not exist it clones and never fetches, checks out or pulls.
C18_UpdateCommandOrder ==
  call.op = "ensureRepoCheckout"
  => IF call.before = "repo"
     THEN /\ CommandsRun \in
               IF call.ref = None
               THEN {<<"fetch">>, <<"fetch", "pull">>}
               ELSE {<<"fetch">>, <<"fetch", "checkout">>,
                     <<"fetch", "checkout", "pullRef">>}
          /\ \A i \in 1 .. Len(call.log) - 1 : call.log[i].result.ok
          /\ call.log[Len(call.log)].result.ok
             => Len(call.log) = (IF call.ref = None THEN 2 ELSE 3)
          /\ CommandsRun[Len(CommandsRun)] = "pullRef"
             => (~call.threw /\ call.value = call.path)
     ELSE /\ Range(CommandsRun) \cap {"fetch", "checkout", "pull", "pullRef"} = {}
          /\ "clone" \in Range(CommandsRun)

\* C18 witness: on an existing checkout pinned to a ref, fetch and checkout
\* succeeded, the pull of the ref failed with 'Authentication failed', and
\* the call returned the checkout path.
C18_Witness ==
  /\ UpdatedExisting
  /\ call.ref # None
  /\ CommandsRun = <<"fetch", "checkout", "pullRef">>
  /\ call.log[3].result = Failed({"Authentication failed"})
  /\ ~call.threw /\ call.value = call.path

\* C19: a getRepoHeadHash call raises nothing; it returns the HEAD revision
\* of the directory when that is a git working tree in which revparse
\* succeeds, and null in every other case: no directory at the path, a
\* directory that is not a git working tree, a failing revparse.
C19_HeadHashNeverThrows ==
  call.op = "getRepoHeadHash"
  => /\ ~call.threw
     /\ call.value \in {head[call.path], Null}
     /\ call.before # "repo" => call.value = Null
     /\ (call.before = "repo" /\ FailedCommands({"revparse"}) = {})
        => call.value = head[call.path]
     /\ FailedCommands({"revparse"}) # {} => call.value = Null

\* C19 witness: getRepoHeadHash was called on a path where nothing exists
\* and returned null.
C19_Witness ==
  /\ call.op = "getRepoHeadHash"
  /\ call.before = "absent"
  /\ ~call.threw
  /\ call.value = Null

\* C20: a pullRepo call raises nothing, for every path (no directory there,
\* a directory that is not a git working tree, a checkout) and every failure
\* of fetch or pull, and the directory it was called on is as before.
C20_PullRepoNeverThrows ==
  call.op = "pullRepo"
  => (~call.threw /\ trees[call.path] = call.before)

\* C21: every URL of one remote host/path (https, http, ssh://, git:// with
\* or without credentials, and git@host:path; each with or without a .git
\* suffix and with or without trailing slashes) normalizes to host/path.
C21_SameRemoteSameKey ==
  call.op = "normalizeGitUrl" =>
    \A host \in UrlHosts, path \in UrlPaths :
      call.path \in SameRemoteUrls(host, path)
        => call.value = host \o <<"/">> \o path

\* C22: normalizing a normalized URL changes nothing.
C22_NormalizeIdempotent ==
  call.op = "normalizeGitUrl" => normalizeGitUrl(call.value) = call.value

\* C23: an scp-style URL user@host:path normalizes to host/path whatever
\* the user name is.
C23_ScpStyleAnyUser ==
  call.op = "normalizeGitUrl" =>
    \A host \in UrlHosts, path \in UrlPaths :
      call.path \in ScpUrls(host, path)
        => call.value = host \o <<"/">> \o path

\* The repos root of a process: SKILLS_REPOS_DIR when it is set to a
\* directory, <home>/.agents/repos when it is not set or empty.
RootOf(env) ==
  IF env.SKILLS_REPOS_DIR \in {Undefined, <<>>}
  THEN env.homedir \o <<"/", ".", "a", "g", "e", "n", "t", "s", "/", "r", "e", "p", "o", "s">>
  ELSE env.SKILLS_REPOS_DIR

\* C24: the checkout path is root/<identity> without a ref and
\* root/<identity>@<ref> with one, the root being SKILLS_REPOS_DIR when set
\* and the per-user default otherwise; for the same URL and environment
\* every other ref (and no ref) gives another path.
C24_CheckoutPathFromRootIdentityRef ==
  call.op = "getRepoCheckoutPath" =>
    LET identity == normalizeGitUrl(call.path)
        suffix == IF call.ref = Undefined THEN <<>> ELSE <<"@">> \o call.ref
    IN /\ call.value = RootOf(call.before) \o <<"/">> \o identity \o suffix
       /\ \A other \in RefInputs \ {call.ref} :
            getRepoCheckoutPath(call.path, other, call.before) # call.value

\* A path was computed for a ref under a root taken from the environment.
C24_Witness ==
  /\ call.op = "getRepoCheckoutPath"
  /\ call.ref # Undefined
  /\ call.before.SKILLS_REPOS_DIR = <<"/", "c">>
  /\ Text(call.value) = "/c/h/o/r@v1"

\* C25: after any sequence of addRepoToLock, removeSkillFromRepo and
\* removeRepoFromLock calls, getOrphanedRepos returns the repo entries whose
\* skills list is empty: every one of them, no other, once each, with its key
\* and its entry, in the iteration order of lock.repos.
C25_OrphanedAreTheEmptyEntries ==
  last.op = "getOrphanedRepos" =>
    LET orphaned == last.value
    IN /\ \A r \in DOMAIN lock.repos :
            lock.repos[r].skills = <<>>
              <=> \E i \in 1 .. Len(orphaned) : orphaned[i].key = r
       /\ \A i \in 1 .. Len(orphaned) :
            /\ orphaned[i].key \in DOMAIN lock.repos
            /\ orphaned[i].entry = lock.repos[orphaned[i].key]
       /\ \A i, j \in 1 .. Len(orphaned) :
            i < j => IndexOf(lock.repoKeys, orphaned[i].key)
                       < IndexOf(lock.repoKeys, orphaned[j].key)

\* Two repos were added r2 first, r1 emptied afterwards, r2 never had a
\* skill: both are reported, r2 before r1, while a skill entry still refers
\* to r1.
C25_Witness ==
  /\ last.op = "getOrphanedRepos"
  /\ Len(last.value) = 2
  /\ last.value[1].key = "r2"
  /\ last.value[2].key = "r1"
  /\ \E n \in DOMAIN lock.skills : lock.skills[n].repoPath = "r1"

\* C26: addRepoToLock(identity, info, names) at time now: when the entry is
\* absent it is created with skills = names; when present its list becomes
\* the existing list followed by the names not yet in it, in the given
\* order, without duplicate; lastFetched is now in both cases, and no other
\* repo entry and no skill entry changes.
C26_AddRepoCreatesOrMerges ==
  [][\A r \in Repos, skillNames \in ListsOver(Names), now \in Times :
       AddRepoToLockCall(r, skillNames, now) =>
         LET existing == IF r \in DOMAIN lock.repos THEN lock.repos[r].skills ELSE <<>>
             fresh == SelectSeq(skillNames, LAMBDA n : n \notin Range(existing))
             result == lock'.repos[r].skills
         IN /\ r \in DOMAIN lock'.repos
            /\ r \notin DOMAIN lock.repos => result = skillNames
            /\ r \in DOMAIN lock.repos => result = existing \o fresh
            /\ \A i, j \in 1 .. Len(result) : i # j => result[i] # result[j]
            /\ lock'.repos[r].lastFetched = now
            /\ lock'.repos[r].url = Url(r)
            /\ \A other \in DOMAIN lock.repos \ {r} :
                 other \in DOMAIN lock'.repos /\ lock'.repos[other] = lock.repos[other]
            /\ lock'.skills = lock.skills]_vars

\* An existing entry with one name was merged with a list that repeats it:
\* the list holds the old name first, then the new one.
C26_Witness ==
  /\ last.op = "addRepoToLock"
  /\ last.present
  /\ last.repo = "r1"
  /\ lock.repos["r1"].skills = <<"b", "a">>
  /\ lock.repos["r1"].lastFetched = MaxNow

\* C27: removeRepoFromLock(identity) deletes that repo entry and nothing
\* else: every other repo entry and every entry of lock.skills, also those
\* whose repoPath is the deleted identity, stay as they were.
C27_RemoveRepoDeletesOnlyTheEntry ==
  [][last'.op = "removeRepoFromLock" =>
       /\ DOMAIN lock'.repos = DOMAIN lock.repos \ {last'.repo}
       /\ \A other \in DOMAIN lock'.repos : lock'.repos[other] = lock.repos[other]
       /\ lock'.repoKeys = Without(lock.repoKeys, last'.repo)
       /\ lock'.skills = lock.skills
       /\ lock'.version = lock.version]_vars

\* A tracked repo was removed while a skill entry refers to it and another
\* repo is tracked.
C27_Witness ==
  /\ last.op = "removeRepoFromLock"
  /\ last.present
  /\ last.repo \notin DOMAIN lock.repos
  /\ DOMAIN lock.repos # {}
  /\ \E n \in DOMAIN lock.skills : lock.skills[n].repoPath = last.repo

\* C28: reading a manifest of an older schema version gives a manifest of
\* the current version with every skill entry as it was, every
\* dismissed-prompt flag as it was, and a repos map, empty when the file
\* had none.
C28_MigrationPreserves ==
  [][(last'.op = "readSkillLock" /\ IsManifest(disk)
        /\ disk.version < CURRENT_VERSION) =>
       /\ lock'.version = CURRENT_VERSION
       /\ lock'.skills = disk.skills
       /\ "dismissed" \in DOMAIN disk =>
            "dismissed" \in DOMAIN lock' /\ lock'.dismissed = disk.dismissed
       /\ "dismissed" \notin DOMAIN disk => "dismissed" \notin DOMAIN lock'
       /\ "repos" \in DOMAIN lock'
       /\ "repos" \notin DOMAIN disk => lock'.repos = <<>>]_vars

\* A version-1 manifest with two skills and a dismissed prompt was read.
C28_Witness ==
  /\ last.op = "readSkillLock"
  /\ lock.version = CURRENT_VERSION
  /\ DOMAIN lock.skills = Names
  /\ "dismissed" \in DOMAIN lock
  /\ lock.dismissed.findSkillsPrompt
  /\ lock.repos = <<>>

\* C29: reading a missing, unparsable or corrupt manifest raises no error
\* and returns a manifest of the current version with an empty skills map
\* and an empty repos map.
C29_UnreadableIsEmpty ==
  [][(last'.op = "readSkillLock" /\ ~IsManifest(disk)) =>
       /\ ~last'.threw
       /\ lock'.version = CURRENT_VERSION
       /\ lock'.skills = <<>>
       /\ lock'.repos = <<>>]_vars

\* A command read a file and got the empty manifest, which the file now
\* holds.
C29_Witness ==
  /\ last.op = "readSkillLock"
  /\ ~last.threw
  /\ lock = createEmptyLockFile
  /\ disk = createEmptyLockFile

\* C30: whatever step a write has reached, and whether or not the writer
\* died, the manifest path holds a complete manifest, and a reader gets the
\* manifest the latest write found or the one it was given.
C30_ReadersSeeWholeManifests ==
  /\ IsManifest(disk)
  /\ disk \in {write.old, write.new}
  /\ last.op = "readByOther" => ~last.threw /\ last.value \in {write.old, write.new}

\* A reader got the previous manifest while the temporary file held a part
\* of the new one, after the writer died.
C30_Witness ==
  /\ last.op = "readByOther"
  /\ write.pc = "idle"
  /\ write.temp = Truncated(write.new)
  /\ write.new # write.old
  /\ last.value = write.old

\* C31: a rejected rm, or an rm whose target is missing, in the removed loop
\* raises no error out of reconcileRepoSkills (a call that throws has an
\* installer that threw); every removed name is deleted from lock.skills and
\* from lock.repos[identity].skills, every rm of every removed name is still
\* attempted, and unless an installer throws the whole diff is returned and
\* every added name is written.
C31_RmFailuresSwallowed ==
  [][last'.op = "reconcile"
     => LET r == last'.repo
            removed == RemovedOf(TrackedSkills(lock, r), checkout[r])
            added == AddedOf(TrackedSkills(lock, r), checkout[r])
        IN /\ \A n \in Range(removed) :
                /\ n \notin DOMAIN lock'.skills
                /\ r \in DOMAIN lock'.repos
                     => n \notin Range(lock'.repos[r].skills)
           /\ Range(last'.rms) = RmCalls(removed, AgentList)
           /\ last'.threw
                => \E c \in last'.failed : c \notin Range(last'.installs)
           /\ ~last'.threw
                => /\ last'.removed = removed
                   /\ last'.added = added
                   /\ \A n \in Range(added) :
                        /\ n \in DOMAIN lock'.skills
                        /\ n \in Range(lock'.repos[r].skills)]_vars

\* C31 witness: a returning call with a removed name and an added one in
\* which the rm of the canonical path rejected and the target of a later rm
\* was already missing; the removed name is gone from the lock and the added
\* name is written.
C31_Witness ==
  /\ last.op = "reconcile" /\ ~last.threw
  /\ Len(last.removed) = 1 /\ Len(last.added) = 1
  /\ <<"canonical", last.removed[1]>> \in last.rmFailed
  /\ <<"cursor", last.removed[1]>> \in last.rmMissing
  /\ <<"canonical", last.removed[1]>> \in links
  /\ last.removed[1] \notin DOMAIN lock.skills
  /\ last.added[1] \in DOMAIN lock.skills

\* C35: a reconcile call writes lock.skills[name] and pushes the name into
\* lock.repos[identity].skills only if no install call for that name failed,
\* whether the installer threw or returned success = false.
C35_RecordedOnlyIfInstalled ==
  [][last'.op = "reconcile"
     => \A c \in last'.failed :
          LET r == last'.repo
              n == c[1]
          IN /\ n \in DOMAIN lock'.skills
                  => n \in DOMAIN lock.skills /\ lock'.skills[n] = lock.skills[n]
             /\ n \in Range(TrackedSkills(lock', r))
                  => n \in Range(TrackedSkills(lock, r))]_vars

\* C33: a reconcile call, returning or aborted, leaves every lock.repos entry
\* under another key and every lock.skills entry whose name is neither in
\* added nor in removed as it was, creates no entry under such a name or key,
\* and a returning call returns exactly the added and removed names of the
\* diff.
C33_OnlyReturnedNamesChange ==
  [][last'.op = "reconcile"
     => LET r == last'.repo
            names == Range(RemovedOf(TrackedSkills(lock, r), checkout[r]))
                     \cup Range(AddedOf(TrackedSkills(lock, r), checkout[r]))
        IN /\ ~last'.threw => names = Range(last'.added) \cup Range(last'.removed)
           /\ DOMAIN lock'.repos = DOMAIN lock.repos
           /\ \A k \in DOMAIN lock.repos \ {r} : lock'.repos[k] = lock.repos[k]
           /\ DOMAIN lock'.skills \ names = DOMAIN lock.skills \ names
           /\ \A n \in DOMAIN lock.skills \ names :
                lock'.skills[n] = lock.skills[n]]_vars

\* C33 witness: a returning call at time 1 on r1 that added one name while
\* the other name stays tracked with an entry written at time 0 and r2 has a
\* repo entry with a tracked name.
C33_Witness ==
  /\ last.op = "reconcile" /\ last.repo = "r1" /\ ~last.threw
  /\ Len(last.added) = 1 /\ last.now = 1
  /\ \E n \in Range(last.tracked) :
       /\ n \in DOMAIN lock.skills
       /\ lock.skills[n].repoPath = "r1"
       /\ lock.skills[n].updatedAt = 0
  /\ "r2" \in DOMAIN lock.repos
  /\ lock.repos["r2"].skills # <<>>

\* C32: cleanupTempDir removes something only when the resolved path of its
\* argument is the temp directory or lies under it, and then only that
\* directory and what is under it; for every other path it throws an Error
\* and the file system is as before.
C32_CleanupOnlyInsideTemp ==
  call.op = "cleanupTempDir"
  => LET target == resolve(call.path, call.before.cwd)
         inside == Under(target, call.before.tmp)
     IN /\ ~inside => call.threw
        /\ call.threw => trees = call.before.tree /\ call.error = PlainError
        /\ ~call.threw
             => /\ inside
                /\ \A d \in FsPaths :
                     IF Under(d, target) THEN trees[d] = "absent"
                     ELSE trees[d] = call.before.tree[d]

\* C32 witness: a call on /tx/../t/x/y removed that directory and left the
\* rest, and the sibling /tx of the temp directory /t is still there.
C32_Witness ==
  /\ call.op = "cleanupTempDir" /\ ~call.threw
  /\ call.path = <<"/", "t", "x", "/", ".", ".", "/", "t", "/", "x", "/", "y">>
  /\ call.before.tmp = <<"/", "t">>
  /\ call.before.tree[<<"/", "t", "/", "x", "/", "y">>] = "dir"
  /\ trees[<<"/", "t", "/", "x", "/", "y">>] = "absent"
  /\ trees[<<"/", "t", "/", "x">>] = "dir"
  /\ trees[<<"/", "t", "x">>] = "dir"

\* C36: an ensureRepoCheckout call with a ref that returns a path returns
\* the path of that ref's checkout and has run no checkout(ref) that failed:
\* a failed checkout of the ref on an existing clone is not reported as
\* success.
C36_ReturnedCheckoutIsOnRef ==
  (call.op = "ensureRepoCheckout" /\ call.ref # None /\ ~call.threw)
  => /\ call.value = CheckoutDir("r1", call.ref)
     /\ trees[call.value] = "repo"
     /\ FailedCommands({"checkout"}) = {}

\* C34: an ensureRepoCheckout call that throws leaves every other checkout
\* path that existed before the call, also one nested under its own path,
\* and what existed at its own path before the call, as they were.
C34_FailedCheckoutKeepsTheRest ==
  [][(call'.op = "ensureRepoCheckout" /\ call'.threw)
     => \A d \in Dirs : trees[d] # "absent" => trees'[d] = trees[d]]_vars

====
